---- MODULE Spec2Model ----
(***************************************************************************)
(* A model of the Risk Gate of the trading bot (src/risk/risk_manager.py): *)
(* the RiskManager object, its state file data/risk_state.json, the wall   *)
(* clock date, and the life cycle of the process that owns the object.     *)
(*                                                                         *)
(* Abstractions.  Prices and P&L are exact rationals <<n, d>> (d > 0, in   *)
(* lowest terms) where the program uses Python floats.  The wall-clock     *)
(* fields of a trade and of a position (timestamp, trade_id, entry_time)   *)
(* and the 'timestamp' of the state file are left out: nothing reads them. *)
(* A reason text is the record of its format string and its arguments.     *)
(***************************************************************************)
EXTENDS Integers, Sequences, FiniteSets, TLC

\* ---------------------------------------------------------------- bounds
\* The last trading date of a run (dates are 0..MaxDay).
MaxDay == 1
\* The number of record_trade calls of a run.
MaxTrades == 2
\* The candle times of a run, and the number of saves of a run.
MaxTime == 3
MaxSaves == 2
\* The number of publish calls of a run.
MaxPubs == 4
\* The rows of data of a paper product, and the messages of the kline socket.
MaxRows == 2
MaxWs == 2
\* The candles of one page of a backfill (max_candles), scaled down.
PageCandles == 2
RobinhoodPageCandles == 2
MaxBars == 6
Warmup == 3
atr_period == 1
adx_period == 2
hold_candles == 2
trade_every_n_candles == 2
MaxClock == 6
failure_threshold == 2
recovery_timeout == 2
vwap_bb_period == 1
MaxVwapBars == 4

\* ---------------------------------------------------------------- inputs
Symbols == {"X", "Y"}
Sides == {"buy", "sell"}
Lots == {1, 2}
\* The prices of entries and of marks, and the price of an exit.
Prices == {100, 130}
ExitPrices == {120}
\* The price of an order asked about: can_place_order never reads it.
OrderPrices == {100}
\* The realized P&L passed with a trade: pnl is "for exit trades" and is left
\* at its default for an entry.
PnLs(side) == IF side = "buy" THEN {0} ELSE {-60, 30}
\* The trades recorded.  The program treats every symbol alike: X is traded
\* in every way, and Y, the second instrument, one lot at a time at one price.
TradeLots(symbol) == IF symbol = "X" THEN Lots ELSE {1}
TradePrices(symbol, side) ==
  IF side = "sell" THEN ExitPrices ELSE IF symbol = "X" THEN Prices ELSE {100}

\* The configurations a RiskManager is constructed with (config.get(...)).
Configs ==
  { [max_daily_loss |-> 60, max_daily_loss_percent |-> 0,
     max_position_size |-> 1, max_open_positions |-> 1,
     starting_capital |-> 1000] }

\* ------------------------------------------------------------- rationals
Abs(n) == IF n < 0 THEN -n ELSE n

RECURSIVE GCD(_, _)
GCD(a, b) == IF b = 0 THEN a ELSE GCD(b, a % b)

\* n / d in lowest terms, d > 0.
Rat(n, d) ==
  LET g == GCD(Abs(n), Abs(d))
      s == IF d < 0 THEN -1 ELSE 1
  IN  IF n = 0 THEN <<0, 1>> ELSE <<(s * n) \div g, (s * d) \div g>>

RInt(n) == <<n, 1>>
RAdd(p, q) == Rat(p[1] * q[2] + q[1] * p[2], p[2] * q[2])
RSub(p, q) == Rat(p[1] * q[2] - q[1] * p[2], p[2] * q[2])
RMul(p, q) == Rat(p[1] * q[1], p[2] * q[2])
RDiv(p, q) == Rat(p[1] * q[2], p[2] * q[1])
RGeq(p, q) == p[1] * q[2] >= q[1] * p[2]
RAbs(p) == <<Abs(p[1]), p[2]>>

\* f"{x:.2f}" of x >= 0: the number of hundredths, rounded to nearest.
Fmt2(p) == (200 * p[1] + p[2]) \div (2 * p[2])

\* ------------------------------------------------------------------ state
VARIABLES
  config,          \* self.config, as read by __init__
  daily_pnl,       \* self.daily_pnl: the realized P&L of current_date
  current_date,    \* self.current_date
  open_positions,  \* self.open_positions: symbol -> position
  daily_trades,    \* self.daily_trades
  blocked,         \* self.blocked
  block_reason,    \* self.block_reason
  file,            \* data/risk_state.json
  today,           \* date.today()
  running,         \* a process holds the RiskManager
  ret,             \* what the last call returned
  n_trades         \* the number of record_trade calls made in the run

mem == <<daily_pnl, current_date, open_positions, daily_trades, blocked, block_reason>>
vars == <<config, daily_pnl, current_date, open_positions, daily_trades,
          blocked, block_reason, file, today, running, ret, n_trades>>

\* The threads that call into the process-wide RiskManager
\* (get_risk_manager): the market workers and the API thread.
VARIABLES
  pc,              \* thread -> the statement of record_trade it is at
  frame            \* thread -> its locals: the trade, the P&L read, the state dict

threadvars == <<pc, frame>>

\* ---------------------------------------------------------------- reasons
Reason(prefix, text, a, b) == [prefix |-> prefix, text |-> text, a |-> a, b |-> b]
None == Reason("", "None", 0, 0)
OK == Reason("", "OK", 0, 0)

\* ------------------------------------------------------------ persistence
NoPositions == <<>>

FileOf(st, d, pnl, pos, trades, blk, rsn) ==
  [status |-> st, date |-> d, daily_pnl |-> pnl, open_positions |-> pos,
   daily_trades |-> trades, blocked |-> blk, block_reason |-> rsn]

\* No state file yet, and a state file cut short inside a write.
NoFile == FileOf("absent", 0, 0, NoPositions, <<>>, FALSE, None)
Truncated == FileOf("truncated", 0, 0, NoPositions, <<>>, FALSE, None)

\* The object state: the fields of self that the operations read and write.
Self ==
  [daily_pnl |-> daily_pnl, current_date |-> current_date,
   open_positions |-> open_positions, daily_trades |-> daily_trades,
   blocked |-> blocked, block_reason |-> block_reason]

\* The fields __init__ sets before it calls _load_state.
init_fields ==
  [daily_pnl |-> 0, current_date |-> today, open_positions |-> NoPositions,
   daily_trades |-> <<>>, blocked |-> FALSE, block_reason |-> None]

\* A save that leaves the block latch out of the file.
save_state_without_latch(self) ==
  FileOf("complete", self.current_date, self.daily_pnl, self.open_positions,
         self.daily_trades, FALSE, None)

\* The file _save_state writes for the object state self: the whole state,
\* in one write that replaces the file's content.
save_state(self) ==
  FileOf("complete", self.current_date, self.daily_pnl, self.open_positions,
         self.daily_trades, self.blocked, self.block_reason)

\* A reset that drops the open positions with the counters.
reset_daily_counters_and_positions(self) ==
  [self EXCEPT !.daily_pnl = 0, !.daily_trades = <<>>, !.blocked = FALSE,
               !.block_reason = None, !.current_date = today,
               !.open_positions = NoPositions]

\* _reset_daily_counters: the object state it leaves (it then saves it).
reset_daily_counters(self) ==
  [self EXCEPT !.daily_pnl = 0, !.daily_trades = <<>>, !.blocked = FALSE,
               !.block_reason = None, !.current_date = today]

\* _load_state on the freshly initialised object self: the object state it
\* leaves and whether it saved it.
load_state(self) ==
  IF file.status = "absent"
    THEN [self |-> self, saved |-> FALSE]
  ELSE IF file.status = "truncated"
    \* json.load raises: the except branch resets
    THEN [self |-> reset_daily_counters(self), saved |-> TRUE]
  ELSE IF file.date # self.current_date
    \* a new day: only the counters are reset, nothing is restored
    THEN [self |-> reset_daily_counters(self), saved |-> TRUE]
  ELSE [self |-> [self EXCEPT !.daily_pnl = file.daily_pnl,
                              !.open_positions = file.open_positions,
                              !.daily_trades = file.daily_trades,
                              !.blocked = file.blocked,
                              !.block_reason = file.block_reason],
        saved |-> FALSE]

\* --------------------------------------------------------- can_place_order
\* The limit compared with > where the program compares with >=.
daily_loss_passed(self) ==
  config.max_daily_loss > 0 /\ Abs(self.daily_pnl) > config.max_daily_loss

\* The check of the absolute limit with ">" for ">=".
daily_loss_reached_strict(self) ==
  config.max_daily_loss > 0 /\ Abs(self.daily_pnl) > config.max_daily_loss

\* "Check daily loss limit": the condition of the absolute limit.
daily_loss_reached(self) ==
  config.max_daily_loss > 0 /\ Abs(self.daily_pnl) >= config.max_daily_loss

\* loss_percent = (abs(self.daily_pnl) / self.starting_capital) * 100
loss_percent(self) ==
  RMul(Rat(Abs(self.daily_pnl), config.starting_capital), RInt(100))

\* "Check daily loss percentage limit": the condition of the percent limit.
daily_loss_percent_reached(self) ==
  /\ config.max_daily_loss_percent > 0
  /\ RGeq(loss_percent(self), RInt(config.max_daily_loss_percent))

\* "Check max position size".
position_size_exceeded(lots) ==
  config.max_position_size > 0 /\ lots > config.max_position_size

\* "Check max open positions (for new positions)".
max_positions_reached(self, symbol, side) ==
  /\ side = "buy"
  /\ config.max_open_positions > 0
  /\ symbol \notin DOMAIN self.open_positions
  /\ Cardinality(DOMAIN self.open_positions) >= config.max_open_positions

\* "Check if already blocked".
is_blocked(self) == self.blocked

\* The checks with a block that holds only while the limit is exceeded.
place_order_checks_unlatched(self, symbol, side, lots, price) ==
  IF daily_loss_reached(self) THEN
    LET r == Reason("", "Daily loss limit reached", Fmt2(RInt(Abs(self.daily_pnl))), 0)
    IN  [self |-> [self EXCEPT !.blocked = TRUE, !.block_reason = r],
         ok |-> FALSE, saved |-> TRUE, reason |-> r]
  ELSE IF position_size_exceeded(lots) THEN
    [self |-> self, ok |-> FALSE, saved |-> FALSE,
     reason |-> Reason("", "Position size exceeds max", lots, config.max_position_size)]
  ELSE IF max_positions_reached(self, symbol, side) THEN
    [self |-> self, ok |-> FALSE, saved |-> FALSE,
     reason |-> Reason("", "Max open positions reached", config.max_open_positions, 0)]
  ELSE
    [self |-> self, ok |-> TRUE, saved |-> FALSE, reason |-> OK]

\* The checks with the return of the daily-loss branch missing: the block is
\* latched and the call goes on to the checks below.
place_order_checks_fallthrough(self, symbol, side, lots, price) ==
  LET hit == ~self.blocked /\ daily_loss_reached(self)
      r == Reason("", "Daily loss limit reached", Fmt2(RInt(Abs(self.daily_pnl))), 0)
      s1 == IF hit THEN [self EXCEPT !.blocked = TRUE, !.block_reason = r] ELSE self
  IN  IF self.blocked THEN
        [self |-> self, ok |-> FALSE, saved |-> FALSE,
         reason |-> Reason("Trading blocked: ", self.block_reason.text,
                           self.block_reason.a, self.block_reason.b)]
      ELSE IF position_size_exceeded(lots) THEN
        [self |-> s1, ok |-> FALSE, saved |-> hit,
         reason |-> Reason("", "Position size exceeds max", lots, config.max_position_size)]
      ELSE IF max_positions_reached(self, symbol, side) THEN
        [self |-> s1, ok |-> FALSE, saved |-> hit,
         reason |-> Reason("", "Max open positions reached", config.max_open_positions, 0)]
      ELSE
        [self |-> s1, ok |-> TRUE, saved |-> hit, reason |-> OK]

\* The checks with a position-size denial that latches the block.
place_order_checks_size_latches(self, symbol, side, lots, price) ==
  IF is_blocked(self) THEN
    [self |-> self, ok |-> FALSE, saved |-> FALSE,
     reason |-> Reason("Trading blocked: ", self.block_reason.text,
                       self.block_reason.a, self.block_reason.b)]
  ELSE IF daily_loss_reached(self) THEN
    LET r == Reason("", "Daily loss limit reached", Fmt2(RInt(Abs(self.daily_pnl))), 0)
    IN  [self |-> [self EXCEPT !.blocked = TRUE, !.block_reason = r],
         ok |-> FALSE, saved |-> TRUE, reason |-> r]
  ELSE IF position_size_exceeded(lots) THEN
    LET r == Reason("", "Position size exceeds max", lots, config.max_position_size)
    IN  [self |-> [self EXCEPT !.blocked = TRUE, !.block_reason = r],
         ok |-> FALSE, saved |-> TRUE, reason |-> r]
  ELSE IF max_positions_reached(self, symbol, side) THEN
    [self |-> self, ok |-> FALSE, saved |-> FALSE,
     reason |-> Reason("", "Max open positions reached", config.max_open_positions, 0)]
  ELSE
    [self |-> self, ok |-> TRUE, saved |-> FALSE, reason |-> OK]

\* The checks of can_place_order after the date check, on the object state
\* self: the state it leaves, what it returns, and whether it saved.
place_order_checks(self, symbol, side, lots, price) ==
  IF is_blocked(self) THEN
    [self |-> self, ok |-> FALSE, saved |-> FALSE,
     reason |-> Reason("Trading blocked: ", self.block_reason.text,
                       self.block_reason.a, self.block_reason.b)]
  ELSE IF daily_loss_reached(self) THEN
    LET r == Reason("", "Daily loss limit reached", Fmt2(RInt(Abs(self.daily_pnl))), 0)
    IN  [self |-> [self EXCEPT !.blocked = TRUE, !.block_reason = r],
         ok |-> FALSE, saved |-> TRUE, reason |-> r]
  ELSE IF daily_loss_percent_reached(self) THEN
    LET r == Reason("", "Daily loss % limit reached", Fmt2(loss_percent(self)), 0)
    IN  [self |-> [self EXCEPT !.blocked = TRUE, !.block_reason = r],
         ok |-> FALSE, saved |-> TRUE, reason |-> r]
  ELSE IF position_size_exceeded(lots) THEN
    [self |-> self, ok |-> FALSE, saved |-> FALSE,
     reason |-> Reason("", "Position size exceeds max", lots, config.max_position_size)]
  ELSE IF max_positions_reached(self, symbol, side) THEN
    [self |-> self, ok |-> FALSE, saved |-> FALSE,
     reason |-> Reason("", "Max open positions reached", config.max_open_positions, 0)]
  ELSE
    [self |-> self, ok |-> TRUE, saved |-> FALSE, reason |-> OK]

\* "Check if new day - reset counters".
is_new_day(self) == today # self.current_date

\* can_place_order(symbol, side, lots, price) on the object state self.
can_place_order(self, symbol, side, lots, price) ==
  LET rolled == is_new_day(self)
      s1 == IF rolled THEN reset_daily_counters(self) ELSE self
      r == place_order_checks(s1, symbol, side, lots, price)
  IN  [r EXCEPT !.saved = rolled \/ r.saved]

\* ------------------------------------------------------------ record_trade
Trade(symbol, side, lots, price, pnl) ==
  [symbol |-> symbol, side |-> side, lots |-> lots, price |-> price, pnl |-> pnl]

Position(lots, entry_price, current_price, unrealized_pnl) ==
  [lots |-> lots, entry_price |-> entry_price,
   current_price |-> current_price, unrealized_pnl |-> unrealized_pnl]

Remove(positions, symbol) ==
  [t \in DOMAIN positions \ {symbol} |-> positions[t]]

\* "New position opened".
open_position(positions, symbol, lots, price) ==
  (symbol :> Position(lots, RInt(price), RInt(price), RInt(0))) @@ positions

\* An average of the two prices that is not weighted by the lots.
increase_position_unweighted(positions, symbol, lots, price) ==
  LET pos == positions[symbol]
      total_lots == pos.lots + lots
      avg_price == RDiv(RAdd(pos.entry_price, RInt(price)), RInt(2))
  IN  [positions EXCEPT ![symbol] =
         [pos EXCEPT !.lots = total_lots, !.entry_price = avg_price]]

\* "Add to existing position (averaging)".
increase_position(positions, symbol, lots, price) ==
  LET pos == positions[symbol]
      total_lots == pos.lots + lots
      avg_price == RDiv(RAdd(RMul(RInt(pos.lots), pos.entry_price),
                             RInt(lots * price)),
                        RInt(total_lots))
  IN  [positions EXCEPT ![symbol] =
         [pos EXCEPT !.lots = total_lots, !.entry_price = avg_price]]

\* The sell branch without "del self.open_positions[symbol]".
reduce_position_keeps_entry(positions, symbol, lots) ==
  IF symbol \notin DOMAIN positions THEN positions
  ELSE [positions EXCEPT ![symbol].lots = @ - lots]

\* The sell branch: reduce, and delete the entry at lots <= 0.
reduce_position(positions, symbol, lots) ==
  IF symbol \notin DOMAIN positions THEN positions
  ELSE IF positions[symbol].lots - lots <= 0 THEN Remove(positions, symbol)
  ELSE [positions EXCEPT ![symbol].lots = @ - lots]

\* "Update positions".
update_positions(positions, symbol, side, lots, price) ==
  IF side = "buy"
    THEN IF symbol \notin DOMAIN positions
           THEN open_position(positions, symbol, lots, price)
           ELSE increase_position(positions, symbol, lots, price)
    ELSE reduce_position(positions, symbol, lots)

\* "Update P&L".
update_pnl(pnl_before, pnl) == IF pnl # 0 THEN pnl_before + pnl ELSE pnl_before

\* record_trade(symbol, side, lots, price, pnl) on the object state self.
record_trade(self, symbol, side, lots, price, pnl) ==
  [self EXCEPT
     !.daily_trades = Append(@, Trade(symbol, side, lots, price, pnl)),
     !.daily_pnl = update_pnl(@, pnl),
     !.open_positions = update_positions(@, symbol, side, lots, price)]

\* --------------------------------------------------- update_position_price
\* unrealized_pnl = (current_price - entry_price) * lots
unrealized(pos, current_price) ==
  RMul(RSub(RInt(current_price), pos.entry_price), RInt(pos.lots))

update_position_price(self, symbol, current_price) ==
  IF symbol \in DOMAIN self.open_positions
    THEN LET pos == self.open_positions[symbol]
         IN  [self EXCEPT !.open_positions[symbol] =
                [pos EXCEPT !.current_price = RInt(current_price),
                            !.unrealized_pnl = unrealized(pos, current_price)]]
    ELSE self

\* ------------------------------------------------------------ get_daily_pnl
RECURSIVE SumUnrealized(_, _)
SumUnrealized(positions, syms) ==
  IF syms = {} THEN RInt(0)
  ELSE LET s == CHOOSE t \in syms : TRUE
       IN  RAdd(positions[s].unrealized_pnl, SumUnrealized(positions, syms \ {s}))

get_daily_pnl(self) ==
  LET u == SumUnrealized(self.open_positions, DOMAIN self.open_positions)
  IN  [realized |-> RInt(self.daily_pnl), unrealized |-> u,
       total |-> RAdd(RInt(self.daily_pnl), u)]

\* -------------------------------------------------------------- reset_block
reset_block(self) == [self EXCEPT !.blocked = FALSE, !.block_reason = None]

\* ------------------------------------------------------ close_all_positions
close_all_positions(self) == DOMAIN self.open_positions

\* ================================================================ actions
SetSelf(self) ==
  /\ daily_pnl' = self.daily_pnl
  /\ current_date' = self.current_date
  /\ open_positions' = self.open_positions
  /\ daily_trades' = self.daily_trades
  /\ blocked' = self.blocked
  /\ block_reason' = self.block_reason

\* What the last call returned: the (allowed, reason) of can_place_order, and
\* NoRet after a call that returns nothing that is modelled.
Ret(ok, reason) == [call |-> "can_place_order", ok |-> ok, reason |-> reason]
NoRet == [call |-> "", ok |-> TRUE, reason |-> None]
\* After __init__ on an existing state file.
Loaded == [call |-> "__init__", ok |-> TRUE, reason |-> None]

Init ==
  /\ config \in Configs
  /\ today = 0
  /\ file = NoFile
  /\ running = TRUE
  /\ daily_pnl = init_fields.daily_pnl
  /\ current_date = init_fields.current_date
  /\ open_positions = init_fields.open_positions
  /\ daily_trades = init_fields.daily_trades
  /\ blocked = init_fields.blocked
  /\ block_reason = init_fields.block_reason
  /\ ret = NoRet
  /\ n_trades = 0

CanPlaceOrder(symbol, side, lots, price) ==
  /\ running
  /\ LET r == can_place_order(Self, symbol, side, lots, price)
     IN  /\ SetSelf(r.self)
         /\ file' = IF r.saved THEN save_state(r.self) ELSE file
         /\ ret' = Ret(r.ok, r.reason)
  /\ UNCHANGED <<config, today, running, n_trades>>

RecordTrade(symbol, side, lots, price, pnl) ==
  /\ running
  /\ n_trades < MaxTrades
  /\ n_trades' = n_trades + 1
  /\ LET s == record_trade(Self, symbol, side, lots, price, pnl)
     IN  /\ SetSelf(s)
         /\ file' = save_state(s)
  /\ ret' = NoRet
  /\ UNCHANGED <<config, today, running>>

UpdatePositionPrice(symbol, current_price) ==
  /\ running
  /\ LET s == update_position_price(Self, symbol, current_price)
     IN  /\ SetSelf(s)
         /\ file' = IF symbol \in DOMAIN open_positions THEN save_state(s) ELSE file
  /\ ret' = NoRet
  /\ UNCHANGED <<config, today, running, n_trades>>

ResetBlock ==
  /\ running
  /\ LET s == reset_block(Self)
     IN  /\ SetSelf(s)
         /\ file' = save_state(s)
  /\ ret' = NoRet
  /\ UNCHANGED <<config, today, running, n_trades>>

CloseAllPositions ==
  /\ running
  /\ ret' = NoRet
  /\ UNCHANGED <<config, mem, file, today, running, n_trades>>

\* Midnight: date.today() moves on.
Tick ==
  /\ today < MaxDay
  /\ today' = today + 1
  /\ UNCHANGED <<config, mem, file, running, ret, n_trades>>

\* The process dies inside _save_state, between open(state_file, 'w'), which
\* empties the file, and the end of json.dump.  record_trade and reset_block
\* save on every call, so a save can be under way in any state.  The object
\* is lost with the process.
CrashInSave ==
  /\ running
  /\ running' = FALSE
  /\ file' = Truncated
  /\ SetSelf(init_fields)
  /\ ret' = NoRet
  /\ UNCHANGED <<config, today, n_trades>>

\* __init__ and its _load_state: the new object, and the file it leaves.
Construct ==
  LET r == load_state(init_fields)
  IN  /\ SetSelf(r.self)
      /\ file' = IF r.saved THEN save_state(r.self) ELSE file
      /\ ret' = IF file.status = "absent" THEN NoRet ELSE Loaded

\* A new process constructs the RiskManager after a crash.
Start ==
  /\ ~running
  /\ running' = TRUE
  /\ Construct
  /\ UNCHANGED <<config, today, n_trades>>

\* The process ends between two calls and a new process constructs the
\* RiskManager.
Restart ==
  /\ running
  /\ Construct
  /\ UNCHANGED <<config, today, running, n_trades>>

\* ======================================== the Risk Gate called by threads
\* RiskManager takes no lock, and get_risk_manager hands the one instance to
\* every caller.  A thread runs record_trade statement by statement; the
\* interpreter may switch threads between two statements, and between the
\* read and the write of "self.daily_pnl += pnl".
Threads == {"w1", "w2"}

NoState == [date |-> 0, daily_pnl |-> 0, blocked |-> FALSE, block_reason |-> None]
NoFrame == [trade |-> Trade("X", "buy", 1, 100, 0), tmp |-> 0, state |-> NoState]

ThreadsInit ==
  /\ pc = [t \in Threads |-> "idle"]
  /\ frame = [t \in Threads |-> NoFrame]

\* record_trade, up to "self.daily_trades.append(trade)".
RtAppend(t, symbol, side, lots, price, pnl) ==
  /\ running
  /\ pc[t] = "idle"
  /\ n_trades < MaxTrades
  /\ n_trades' = n_trades + 1
  /\ daily_trades' = Append(daily_trades, Trade(symbol, side, lots, price, pnl))
  /\ frame' = [frame EXCEPT ![t] = [NoFrame EXCEPT !.trade = Trade(symbol, side, lots, price, pnl)]]
  /\ pc' = [pc EXCEPT ![t] = IF pnl # 0 THEN "load_pnl" ELSE "positions"]
  /\ UNCHANGED <<config, daily_pnl, current_date, open_positions, blocked,
                 block_reason, file, today, running, ret>>

\* "self.daily_pnl += pnl": the read of self.daily_pnl.
RtLoadPnl(t) ==
  /\ pc[t] = "load_pnl"
  /\ frame' = [frame EXCEPT ![t].tmp = daily_pnl]
  /\ pc' = [pc EXCEPT ![t] = "store_pnl"]
  /\ UNCHANGED vars

\* "self.daily_pnl += pnl": the write of the sum.
RtStorePnl(t) ==
  /\ pc[t] = "store_pnl"
  /\ daily_pnl' = update_pnl(frame[t].tmp, frame[t].trade.pnl)
  /\ pc' = [pc EXCEPT ![t] = "positions"]
  /\ UNCHANGED <<config, current_date, open_positions, daily_trades, blocked,
                 block_reason, file, today, running, ret, n_trades, frame>>

\* "Update positions".
RtPositions(t) ==
  /\ pc[t] = "positions"
  /\ LET tr == frame[t].trade
     IN  open_positions' =
           update_positions(open_positions, tr.symbol, tr.side, tr.lots, tr.price)
  /\ pc' = [pc EXCEPT ![t] = "save"]
  /\ UNCHANGED <<config, daily_pnl, current_date, daily_trades, blocked,
                 block_reason, file, today, running, ret, n_trades, frame>>

\* _save_state, "state = {...}": the dict holds the date, float(daily_pnl),
\* blocked and block_reason by value, and the open_positions dict and the
\* daily_trades list themselves.
SaveBuild(t) ==
  /\ pc[t] = "save"
  /\ frame' = [frame EXCEPT ![t].state =
                 [date |-> current_date, daily_pnl |-> daily_pnl,
                  blocked |-> blocked, block_reason |-> block_reason]]
  /\ pc' = [pc EXCEPT ![t] = "dump"]
  /\ UNCHANGED vars

\* _save_state, "with open(...) as f: json.dump(state, f)", taken as one
\* write of the whole file.
SaveDump(t) ==
  /\ pc[t] = "dump"
  /\ LET st == frame[t].state
     IN  file' = save_state([Self EXCEPT !.current_date = st.date,
                                         !.daily_pnl = st.daily_pnl,
                                         !.blocked = st.blocked,
                                         !.block_reason = st.block_reason])
  /\ frame' = [frame EXCEPT ![t] = NoFrame]
  /\ pc' = [pc EXCEPT ![t] = "idle"]
  /\ UNCHANGED <<config, mem, today, running, ret, n_trades>>

\* ========================================================= the Candle Store
\* CandleDBInflux of one (exchange, product), over the InfluxDB wrapper and
\* the Redis cache.  A candle is its time and its close (open, high, low and
\* volume travel with the close).  The object is constructed with the
\* back-end and Redis connected (enabled = True); the back-end may go
\* off-line later, and every time is within the query's default range.
Times == 1 .. MaxTime
Closes == {1, 2}
Candle(time, close) == [time |-> time, close |-> close]
Candles == {Candle(t, c) : t \in Times, c \in Closes}
\* The lists given to db_save_candles.
Batches ==
  {<<c>> : c \in Candles} \cup
  {<<c, d>> : c \in Candles, d \in {e \in Candles : e.close = 1}}
Counts == 1 .. MaxTime
\* "max_candles=1000", "count=1000" and "candles[-1000:]".
max_candles == 1000
\* "limit=10000".
query_limit == 10000

VARIABLES
  influx_up,              \* the time-series back-end answers
  store,                  \* the back-end's points of the product: time -> close, 0 for none
  cache,                  \* the Redis list candles:<exchange>:<product>
  influxdb_errors_total,  \* PrometheusExporter.influxdb_errors_total
  failed_writes,          \* the writes that raised, counted
  cret,                   \* what the last Candle Store call returned
  n_saves                 \* the number of saves made in the run

candlevars == <<influx_up, store, cache, influxdb_errors_total, failed_writes,
                cret, n_saves>>

CandlesInit ==
  /\ influx_up = TRUE
  /\ store = [t \in Times |-> 0]
  /\ cache = <<>>
  /\ influxdb_errors_total = 0
  /\ failed_writes = 0
  /\ cret = [call |-> "", value |-> <<>>]
  /\ n_saves = 0

\* The last n elements of a list: list[-n:] and LRANGE key -n -1, n > 0.
LastN(list, n) ==
  IF Len(list) <= n THEN list ELSE SubSeq(list, Len(list) - n + 1, Len(list))
\* The first n elements: Flux limit(n: n).
FirstN(list, n) == IF Len(list) <= n THEN list ELSE SubSeq(list, 1, n)

\* A write of points: a point of the same measurement, tags and time
\* replaces the stored one.
RECURSIVE write_points(_, _)
write_points(points, candles) ==
  IF candles = <<>> THEN points
  ELSE write_points([points EXCEPT ![Head(candles).time] = Head(candles).close],
                    Tail(candles))

\* InfluxDB.write_candle and write_candles_batch: [ok, store, raised].  The
\* write raises when the back-end is off-line; the except clause logs the
\* error and returns False.
write_candles_batch(up, points, candles) ==
  IF up THEN [ok |-> TRUE, store |-> write_points(points, candles), raised |-> FALSE]
        ELSE [ok |-> FALSE, store |-> points, raised |-> TRUE]
write_candle(up, points, candle) == write_candles_batch(up, points, <<candle>>)

\* The points from time start on, in time order.
RECURSIVE rows_from(_, _)
rows_from(points, start) ==
  IF start > MaxTime THEN <<>>
  ELSE (IF points[start] = 0 THEN <<>> ELSE <<Candle(start, points[start])>>)
       \o rows_from(points, start + 1)

\* InfluxDB.query_candles(start_time, limit): range |> filter |> pivot |>
\* limit(n) |> sort(_time); [] when the query raises.
query_candles(up, points, start_time, limit) ==
  IF up THEN FirstN(rows_from(points, IF start_time # 0 THEN start_time ELSE 1), limit)
        ELSE <<>>

\* RedisCache.cache_candles: RPUSH the candles, LTRIM to the last max.
cache_candles(list, candles, max) == LastN(list \o candles, max)
\* RedisCache.get_candles(count).
get_candles(list, count) == LastN(list, count)

\* db_save_candle(candle): [ok, store, cache, raised].
db_save_candle(up, points, list, candle) ==
  LET w == write_candle(up, points, candle)
  IN  [ok |-> w.ok, store |-> w.store, raised |-> w.raised,
       cache |-> IF w.ok THEN cache_candles(list, <<candle>>, max_candles) ELSE list]

\* db_save_candles(candles), candles not empty.
db_save_candles(up, points, list, candles) ==
  LET w == write_candles_batch(up, points, candles)
  IN  [ok |-> w.ok, store |-> w.store, raised |-> w.raised,
       cache |-> IF w.ok THEN cache_candles(list, LastN(candles, max_candles), max_candles)
                         ELSE list]

\* db_get_all_candles(): [value, cache].
db_get_all_candles(up, points, list) ==
  LET cached == get_candles(list, max_candles)
      candles == query_candles(up, points, 0, query_limit)
  IN  IF cached # <<>> THEN [value |-> cached, cache |-> list]
      ELSE [value |-> candles,
            cache |-> IF candles # <<>>
                        THEN cache_candles(list, LastN(candles, max_candles), max_candles)
                        ELSE list]

\* db_get_candles_after_time(after_time).
db_get_candles_after_time(up, points, after_time) ==
  query_candles(up, points, after_time, query_limit)

\* db_get_recent_candles(count).
db_get_recent_candles(up, points, list, count) ==
  LET cached == get_candles(list, count)
      candles == query_candles(up, points, 0, count)
  IN  IF cached # <<>> /\ Len(cached) >= count THEN LastN(cached, count)
      ELSE IF Len(candles) > count THEN LastN(candles, count) ELSE candles

CRet(call, value) == [call |-> call, value |-> value]

Saved(r) ==
  /\ n_saves < MaxSaves
  /\ n_saves' = n_saves + 1
  /\ store' = r.store
  /\ cache' = r.cache
  /\ failed_writes' = failed_writes + (IF r.raised THEN 1 ELSE 0)
  /\ UNCHANGED <<influx_up, influxdb_errors_total>>

DbSaveCandle(candle) ==
  /\ Saved(db_save_candle(influx_up, store, cache, candle))
  /\ cret' = CRet("db_save_candle", <<>>)

DbSaveCandles(candles) ==
  /\ Saved(db_save_candles(influx_up, store, cache, candles))
  /\ cret' = CRet("db_save_candles", <<>>)

DbGetAllCandles ==
  LET r == db_get_all_candles(influx_up, store, cache)
  IN  /\ cret' = CRet("db_get_all_candles", r.value)
      /\ cache' = r.cache
      /\ UNCHANGED <<influx_up, store, influxdb_errors_total, failed_writes, n_saves>>

DbGetCandlesAfterTime(after_time) ==
  /\ cret' = CRet("db_get_candles_after_time",
                  db_get_candles_after_time(influx_up, store, after_time))
  /\ UNCHANGED <<influx_up, store, cache, influxdb_errors_total, failed_writes, n_saves>>

DbGetRecentCandles(count) ==
  /\ cret' = CRet("db_get_recent_candles",
                  db_get_recent_candles(influx_up, store, cache, count))
  /\ UNCHANGED <<influx_up, store, cache, influxdb_errors_total, failed_writes, n_saves>>

\* clear_cache(): DEL of the list.
ClearCache ==
  /\ cache' = <<>>
  /\ cret' = CRet("clear_cache", <<>>)
  /\ UNCHANGED <<influx_up, store, influxdb_errors_total, failed_writes, n_saves>>

\* The back-end goes off-line and comes back.
BackendDown ==
  /\ influx_up /\ influx_up' = FALSE
  /\ UNCHANGED <<store, cache, influxdb_errors_total, failed_writes, cret, n_saves>>
BackendUp ==
  /\ ~influx_up /\ influx_up' = TRUE
  /\ UNCHANGED <<store, cache, influxdb_errors_total, failed_writes, cret, n_saves>>

\* ===================================================== the message-bus sink
\* WolfinchKafkaProducer.  A record is its topic and its key.  The client
\* keeps the records it has accepted and the broker has not yet answered in
\* send order (inflight); the bus is what the broker has acknowledged.
Orders == {"o1", "o2"}
Rec(topic, key) == [topic |-> topic, key |-> key]
\* The lists given to publish_batch.
BatchEvents ==
  {<<Rec("wolfinch.market.data", k)>> : k \in Symbols} \cup
  {<<Rec("wolfinch.market.data", k), Rec("wolfinch.system.alerts", "alert")>> : k \in Symbols}
\* What producer.send and future.get(timeout=10) do for one record: the
\* broker acknowledges it, the send fails for good (KafkaError), the wait
\* times out with the record still in the client, send itself raises, or
\* something else raises.
Outcomes == {"ack", "kafka_error", "timeout", "send_raises", "error"}

VARIABLES
  kafka_enabled,   \* self.enabled
  producer,        \* self.producer: "none" or "ready"
  inflight,        \* the records the client holds, unanswered, in send order
  bus,             \* the records the broker acknowledged, in log order
  stage,           \* order id -> what its owner has published for it so far
  bret,            \* what the last publish call returned
  n_pubs           \* the number of publish calls made in the run

busvars == <<kafka_enabled, producer, inflight, bus, stage, bret, n_pubs>>

BRet(call, ok, raised) == [call |-> call, ok |-> ok, raised |-> raised]

\* __init__(enabled=True), before _init_producer has run.
BusInit ==
  /\ kafka_enabled = TRUE
  /\ producer = "none"
  /\ inflight = <<>>
  /\ bus = <<>>
  /\ stage = [o \in Orders |-> "new"]
  /\ bret = BRet("", FALSE, FALSE)
  /\ n_pubs = 0

\* _init_producer: KafkaProducer(...) connects, or raises and the producer
\* stays None with enabled = False.
InitProducer(connected) ==
  /\ kafka_enabled /\ producer = "none"
  /\ producer' = IF connected THEN "ready" ELSE "none"
  /\ kafka_enabled' = connected
  /\ UNCHANGED <<inflight, bus, stage, bret, n_pubs>>

\* A _send_event that lets an unexpected error through to its caller.
send_event_unguarded(enabled, prod, q, log, rec, outcome) ==
  IF ~enabled \/ prod = "none"
    THEN [ok |-> FALSE, raised |-> FALSE, inflight |-> q, bus |-> log]
  ELSE IF outcome = "ack"
    THEN [ok |-> TRUE, raised |-> FALSE, inflight |-> q, bus |-> Append(log, rec)]
  ELSE IF outcome = "timeout"
    THEN [ok |-> FALSE, raised |-> FALSE, inflight |-> Append(q, rec), bus |-> log]
  ELSE IF outcome = "error"
    THEN [ok |-> FALSE, raised |-> TRUE, inflight |-> q, bus |-> log]
  ELSE [ok |-> FALSE, raised |-> FALSE, inflight |-> q, bus |-> log]

\* _send_event(topic, key, event): [ok, raised, inflight, bus].
send_event(enabled, prod, q, log, rec, outcome) ==
  IF ~enabled \/ prod = "none"
    THEN [ok |-> FALSE, raised |-> FALSE, inflight |-> q, bus |-> log]
  ELSE IF outcome = "ack"
    THEN [ok |-> TRUE, raised |-> FALSE, inflight |-> q, bus |-> Append(log, rec)]
  ELSE IF outcome = "timeout"
    THEN [ok |-> FALSE, raised |-> FALSE, inflight |-> Append(q, rec), bus |-> log]
  ELSE [ok |-> FALSE, raised |-> FALSE, inflight |-> q, bus |-> log]

\* The records of a list whose mask bit is set.
RECURSIVE Masked(_, _)
Masked(list, mask) ==
  IF list = <<>> THEN <<>>
  ELSE (IF Head(mask) THEN <<Head(list)>> ELSE <<>>) \o Masked(Tail(list), Tail(mask))

\* publish_batch(events): every event is handed to producer.send, which
\* queues it, and flush() waits until the broker has answered each: acked
\* marks the acknowledged ones.  When the send of event raise_at raises, the
\* call ends there, with the events before it left in the client.
publish_batch(enabled, prod, q, log, events, acked, raise_at) ==
  IF ~enabled \/ prod = "none"
    THEN [ok |-> FALSE, raised |-> FALSE, inflight |-> q, bus |-> log]
  ELSE IF raise_at \in 1 .. Len(events)
    THEN [ok |-> FALSE, raised |-> FALSE,
          inflight |-> q \o SubSeq(events, 1, raise_at - 1), bus |-> log]
  ELSE [ok |-> TRUE, raised |-> FALSE, inflight |-> q,
        bus |-> log \o Masked(events, acked)]

\* The producer is constructed, and the client holds no earlier record: the
\* broker answers the records of a connection one at a time, in send order.
CanPublish ==
  /\ ~(kafka_enabled /\ producer = "none")
  /\ inflight = <<>> \/ ~kafka_enabled
  /\ n_pubs < MaxPubs

Published(call, r) ==
  /\ n_pubs' = n_pubs + 1
  /\ inflight' = r.inflight
  /\ bus' = r.bus
  /\ bret' = BRet(call, r.ok, r.raised)
  /\ UNCHANGED <<kafka_enabled, producer>>

\* A publish made while the client still holds an earlier record: the new
\* record waits behind it, and future.get times out or the send fails.
PublishBehind(call, rec, outcome) ==
  /\ kafka_enabled /\ producer = "ready"
  /\ inflight # <<>>
  /\ n_pubs < MaxPubs
  /\ outcome \in {"timeout", "send_raises"}
  /\ Published(call, send_event(kafka_enabled, producer, inflight, bus, rec, outcome))

SendEvent(call, rec, outcome) ==
  \/ CanPublish
     /\ Published(call, send_event(kafka_enabled, producer, inflight, bus, rec, outcome))
  \/ PublishBehind(call, rec, outcome)

PublishOrderSubmitted(o, outcome) ==
  /\ stage[o] = "new"
  /\ SendEvent("publish_order_submitted", Rec("wolfinch.orders.submitted", o), outcome)
  /\ stage' = [stage EXCEPT ![o] = "submitted"]

PublishOrderExecuted(o, outcome) ==
  /\ stage[o] = "submitted"
  /\ SendEvent("publish_order_executed", Rec("wolfinch.orders.executed", o), outcome)
  /\ stage' = [stage EXCEPT ![o] = "closed"]

PublishOrderRejected(o, outcome) ==
  /\ stage[o] = "submitted"
  /\ SendEvent("publish_order_rejected", Rec("wolfinch.orders.rejected", o), outcome)
  /\ stage' = [stage EXCEPT ![o] = "closed"]

PublishOrderModified(o, outcome) ==
  /\ stage[o] = "closed"
  /\ SendEvent("publish_order_modified", Rec("wolfinch.orders.modified", o), outcome)
  /\ UNCHANGED stage

PublishBatch(events, acked, raise_at) ==
  /\ CanPublish
  /\ Published("publish_batch",
               publish_batch(kafka_enabled, producer, inflight, bus, events, acked, raise_at))
  /\ UNCHANGED stage

\* "max_in_flight_requests_per_connection=1" with "retries=3": the record
\* the broker answers next is the oldest the client holds.
any_in_flight(q) == 1 .. Len(q)
next_in_flight(q) == IF q = <<>> THEN {} ELSE {1}

RemoveAt(q, i) == SubSeq(q, 1, i - 1) \o SubSeq(q, i + 1, Len(q))

\* The sender thread gets the broker's acknowledgement of a record whose
\* caller has stopped waiting, or gives the record up after its retries.
BrokerAck ==
  /\ \E i \in next_in_flight(inflight) :
       /\ bus' = Append(bus, inflight[i])
       /\ inflight' = RemoveAt(inflight, i)
  /\ UNCHANGED <<kafka_enabled, producer, stage, bret, n_pubs>>

BrokerFail ==
  /\ \E i \in next_in_flight(inflight) : inflight' = RemoveAt(inflight, i)
  /\ UNCHANGED <<kafka_enabled, producer, bus, stage, bret, n_pubs>>

\* ====================================================== the venue adapters
\* What buy, sell, get_order and the order-update feed of an adapter hand to
\* their caller: an Order, None, or an exception.  sell is buy with the other
\* side.
Qtys == {0, 1, 2}
\* A key the payload does not carry.
Absent == "<absent>"
NoQty == -1

\* The Order record of the data model.
Order(status, request_size, filled_size, remaining_size) ==
  [status |-> status, request_size |-> request_size,
   filled_size |-> filled_size, remaining_size |-> remaining_size]

Returned(order) == [kind |-> "order", order |-> order]
ReturnedNone == [kind |-> "none", order |-> Order("", 0, 0, 0)]
Raised == [kind |-> "raise", order |-> Order("", 0, 0, 0)]

RECURSIVE SumQty(_)
SumQty(executions) ==
  IF executions = <<>> THEN 0 ELSE Head(executions) + SumQty(Tail(executions))

\* The 'state' of a Robinhood order, and its 'executions' quantities.
RobinhoodStates ==
  {"open", "confirmed", "unconfirmed", "queued", "cancelled", "filled", "rejected",
   "expired", "partially_filled", "failed", "new"}
Executions == {<<>>, <<1>>, <<1, 1>>}

\* Robinhood._normalized_order(order).
robinhood_normalized_order(state, side, quantity, executions) ==
  IF state \in {"open", "confirmed", "unconfirmed", "queued", "cancelled", "filled",
                "rejected", "expired"}
    THEN IF state = "rejected" THEN ReturnedNone
         ELSE IF side = Absent THEN Raised
         ELSE LET status_type ==
                    IF state \in {"open", "unconfirmed", "queued", "confirmed"} THEN "open"
                    ELSE IF state = "filled" THEN "filled"
                    ELSE "canceled"
                  filled_size == SumQty(executions)
              IN  Returned(Order(status_type, quantity, filled_size, quantity - filled_size))
    ELSE Raised

\* str.lower() of a Binance status.
Lower(status) ==
  CASE status = "NEW" -> "new"
    [] status = "PARTIALLY_FILLED" -> "partially_filled"
    [] status = "FILLED" -> "filled"
    [] status = "CANCELED" -> "canceled"
    [] status = "PENDING_CANCEL" -> "pending_cancel"
    [] status = "REJECTED" -> "rejected"
    [] status = "EXPIRED" -> "expired"
    [] status = "UNKNOWN" -> "unknown"

BinanceStatuses ==
  {"NEW", "PARTIALLY_FILLED", "FILLED", "CANCELED", "PENDING_CANCEL", "REJECTED", "EXPIRED"}

\* Binance.buy(trade_req), from "if response:" on: the response's 'status'
\* (NEW when absent) and 'executedQty', and the size asked for.
binance_buy(status, quantity, executed_qty) ==
  Returned(Order(Lower(IF status = Absent THEN "NEW" ELSE status),
                 quantity, executed_qty, quantity - executed_qty))

\* Binance.get_order(product_id, order_id), from "if response:" on.
binance_get_order(status, orig_qty, executed_qty) ==
  Returned(Order(Lower(IF status = Absent THEN "UNKNOWN" ELSE status),
                 orig_qty, executed_qty, orig_qty - executed_qty))

\* The 'status' of a PaperTrader order message.
PaperStatuses == {"open", "filled", "canceled", "rejected", "new", "partially_filled"}

\* PaperTrader._normalized_order(order): order.get with its defaults.
papertrader_normalized_order(status, size, filled_size, remaining_size) ==
  LET request_size == IF size = NoQty THEN 0 ELSE size
  IN  Returned(Order(IF status = Absent THEN "filled" ELSE status,
                     request_size,
                     IF filled_size = NoQty THEN request_size ELSE filled_size,
                     IF remaining_size = NoQty THEN 0 ELSE remaining_size))

\* PaperTrader.buy(trade_req): the simulated, filled order.
papertrader_buy(size) == papertrader_normalized_order("filled", size, size, 0)
\* PaperTrader.get_order(prod_id, order_id).
papertrader_get_order == papertrader_normalized_order("filled", NoQty, NoQty, NoQty)

\* The order messages of the feed: of a size, filled in part or in full, with
\* or without the 'filled_size' and 'remaining_size' keys.
PaperMessages ==
  {m \in [status : PaperStatuses \cup {Absent}, size : Qtys,
          filled_size : Qtys \cup {NoQty}, remaining_size : Qtys \cup {NoQty}] :
     /\ m.filled_size # NoQty => m.filled_size <= m.size
     /\ m.remaining_size # NoQty => m.remaining_size <= m.size
     /\ (m.filled_size # NoQty /\ m.remaining_size # NoQty)
          => m.filled_size + m.remaining_size = m.size}

VARIABLES
  order_out        \* what the last adapter call handed over, and from which payload

ordervars == <<order_out>>

Out(adapter, call, venue_status, r) ==
  [adapter |-> adapter, call |-> call, venue_status |-> venue_status,
   kind |-> r.kind, order |-> r.order]

AdaptersInit == order_out = Out("", "", "", ReturnedNone)

\* Robinhood.buy / sell: the order the venue answers with is normalized.
RobinhoodBuy(state, side, quantity, executions) ==
  /\ SumQty(executions) <= quantity
  /\ order_out' = Out("robinhood", "buy", state,
                      robinhood_normalized_order(state, side, quantity, executions))

RobinhoodGetOrder(state, side, quantity, executions) ==
  /\ SumQty(executions) <= quantity
  /\ order_out' = Out("robinhood", "get_order", state,
                      robinhood_normalized_order(state, side, quantity, executions))

BinanceBuy(status, quantity, executed_qty) ==
  /\ executed_qty <= quantity
  /\ order_out' = Out("binance", "buy", status, binance_buy(status, quantity, executed_qty))

BinanceGetOrder(status, orig_qty, executed_qty) ==
  /\ executed_qty <= orig_qty
  /\ order_out' = Out("binance", "get_order", status,
                      binance_get_order(status, orig_qty, executed_qty))

PaperBuy(size) ==
  order_out' = Out("papertrader", "buy", "filled", papertrader_buy(size))

PaperGetOrder ==
  order_out' = Out("papertrader", "get_order", "filled", papertrader_get_order)

\* _papertrader_consume_order_update_feed(market, msg).
PaperOrderUpdate(msg) ==
  order_out' = Out("papertrader", "order_update", msg.status,
                   papertrader_normalized_order(msg.status, msg.size, msg.filled_size,
                                                msg.remaining_size))

\* ======================================================= the market feeds
\* The products of the paper adapter and the product of the Binance adapter.
PaperProducts == <<"X", "Y">>
BinanceSymbols == {"BTCUSDT"}
symbol_to_id == [sym \in BinanceSymbols |-> "B"]
FeedProducts == {PaperProducts[i] : i \in DOMAIN PaperProducts} \cup {"B"}

\* csv_data[product_id]: the rows _generate_random_ohlc_data made, one a
\* minute; every row has the keys open and high.
Rows == [i \in 1..MaxRows |-> [timestamp |-> 60 * i, close |-> 100 + i]]
csv_data == [p \in {PaperProducts[i] : i \in DOMAIN PaperProducts} |-> Rows]

\* A kline message: its close time T, its close c and its closed bit x.
Kline(symbol, T, c, x) ==
  [e |-> "kline", s |-> symbol, k |-> [T |-> T, c |-> c, x |-> x]]

\* What the Binance kline socket delivers: updates of the candle under way
\* and the closed candle, with T in milliseconds; and another event type.
BinanceMessages ==
  {Kline(sym, T, 200, x) : sym \in BinanceSymbols, T \in {59999, 119999}, x \in BOOLEAN}
    \cup {[e |-> "24hrTicker", s |-> sym, k |-> [T |-> 0, c |-> 0, x |-> FALSE]] :
            sym \in BinanceSymbols}

\* self.timeOffset: under 5 seconds it is taken as 0.
timeOffset == 0

OHLC(time, close) == [time |-> time, close |-> close]

VARIABLES
  markets,         \* the products get_market_by_product finds a market for
  feed_processor,  \* product -> the callback register_feed_processor set
  feed_thread,     \* PaperTrader.feed_thread
  data_indices,    \* _feed_generator_thread: product -> the next row
  feed_cursor,     \* _feed_generator_thread: the product its pass is at
  feed_queue,      \* product -> the messages queued for the market's worker
  enqueued,        \* product -> every message feed_enQ was given, in order
  market_candles,  \* product -> the candles of the market
  n_ws,            \* the messages the kline socket has delivered
  ws_msg           \* the message of the socket's last callback

feedvars == <<markets, feed_processor, feed_thread, data_indices, feed_cursor,
              feed_queue, enqueued, market_candles, n_ws, ws_msg>>

FeedInit ==
  /\ markets = {}
  /\ feed_processor = [p \in FeedProducts |-> "none"]
  /\ feed_thread = "none"
  /\ data_indices = [p \in DOMAIN csv_data |-> 0]
  /\ feed_cursor = 1
  /\ feed_queue = [p \in FeedProducts |-> <<>>]
  /\ enqueued = [p \in FeedProducts |-> <<>>]
  /\ market_candles = [p \in FeedProducts |-> <<>>]
  /\ n_ws = 0
  /\ ws_msg = [e |-> "", s |-> "", k |-> [T |-> 0, c |-> 0, x |-> FALSE]]

\* get_market_by_product(self.name, product_id): the market, or None.
get_market_by_product(registered, product_id) ==
  IF product_id \in registered THEN product_id ELSE "none"

\* feed_enQ(market, msg): the message joins the market's queue.
feed_enQ(q, market, msg) == [q EXCEPT ![market] = Append(@, msg)]

\* Binance._feed_enQ_msg that hands every kline to the market.
binance_feed_enQ_msg_unfiltered(registered, q, msg) ==
  IF msg.e = "kline"
    THEN LET market == get_market_by_product(registered, symbol_to_id[msg.s])
         IN  IF market = "none" THEN q ELSE feed_enQ(q, market, msg)
    ELSE q

\* Binance._feed_enQ_msg(msg): the queues after the socket's callback.
binance_feed_enQ_msg(registered, q, msg) ==
  IF msg.e = "kline"
    THEN LET market == get_market_by_product(registered, symbol_to_id[msg.s])
         IN  IF market = "none" THEN q
             ELSE IF msg.k.x = TRUE THEN feed_enQ(q, market, msg)
             ELSE q
    ELSE q

\* Binance._binance_consume_feed(market, msg): the candle it adds.
binance_consume_feed(candles, msg) ==
  Append(candles, OHLC((msg.k.T + 1) \div 1000 + timeOffset, msg.k.c))

\* PaperTrader._papertrader_consume_feed(market, msg): trade, kline and
\* executionReport messages; a kline goes to _papertrader_consume_candle_feed.
papertrader_consume_feed(candles, msg) ==
  IF msg.e = "kline" THEN Append(candles, OHLC(msg.k.T, msg.k.c)) ELSE candles

\* The message _feed_generator_thread makes of a row (OHLC format).
row_message(product, row) == Kline(product, row.timestamp, row.close, TRUE)

\* The socket thread calls Binance._feed_enQ_msg.
BinanceFeedMsg(msg) ==
  /\ n_ws < MaxWs
  /\ n_ws' = n_ws + 1
  /\ ws_msg' = msg
  /\ feed_queue' = binance_feed_enQ_msg(markets, feed_queue, msg)
  /\ enqueued' = binance_feed_enQ_msg(markets, enqueued, msg)
  /\ UNCHANGED <<markets, feed_processor, feed_thread, data_indices, feed_cursor,
                 market_candles>>

\* Binance.market_init(market).
BinanceMarketInit ==
  /\ feed_processor["B"] = "none"
  /\ feed_processor' = [feed_processor EXCEPT !["B"] = "_binance_consume_feed"]
  /\ UNCHANGED <<markets, feed_thread, data_indices, feed_cursor, feed_queue,
                 enqueued, market_candles, n_ws, ws_msg>>

\* PaperTrader.market_init(market): the first call starts the feed thread.
PaperMarketInit(product) ==
  /\ feed_processor[product] = "none"
  /\ feed_processor' = [feed_processor EXCEPT ![product] = "_papertrader_consume_feed"]
  /\ feed_thread' = "running"
  /\ UNCHANGED <<markets, data_indices, feed_cursor, feed_queue, enqueued,
                 market_candles, n_ws, ws_msg>>

\* The market of a product becomes the one get_market_by_product returns.
RegisterMarket(product) ==
  /\ product \notin markets
  /\ markets' = markets \cup {product}
  /\ UNCHANGED <<feed_processor, feed_thread, data_indices, feed_cursor, feed_queue,
                 enqueued, market_candles, n_ws, ws_msg>>

\* One turn of the for loop of _feed_generator_thread, for the product the
\* pass is at.
FeedGenerate ==
  /\ feed_thread = "running"
  /\ LET product == PaperProducts[feed_cursor]
         idx == data_indices[product]
         market == get_market_by_product(markets, product)
         msg == row_message(product, csv_data[product][idx + 1])
     IN  /\ idx < Len(csv_data[product])
         /\ feed_queue' = IF market # "none" THEN feed_enQ(feed_queue, market, msg)
                          ELSE feed_queue
         /\ enqueued' = IF market # "none" THEN feed_enQ(enqueued, market, msg)
                        ELSE enqueued
         /\ data_indices' = [data_indices EXCEPT ![product] = idx + 1]
  /\ feed_cursor' = (feed_cursor % Len(PaperProducts)) + 1
  /\ UNCHANGED <<markets, feed_processor, feed_thread, market_candles, n_ws, ws_msg>>

\* The same turn for a product whose data has ended ("Reached end of data").
FeedSkip ==
  /\ feed_thread = "running"
  /\ data_indices[PaperProducts[feed_cursor]] >= Len(csv_data[PaperProducts[feed_cursor]])
  /\ feed_cursor' = (feed_cursor % Len(PaperProducts)) + 1
  /\ UNCHANGED <<markets, feed_processor, feed_thread, data_indices, feed_queue,
                 enqueued, market_candles, n_ws, ws_msg>>

\* The market's worker takes the next message of its queue and hands it to
\* the registered feed processor.
ConsumeFeed(product) ==
  /\ feed_queue[product] # <<>>
  /\ feed_processor[product] # "none"
  /\ LET msg == Head(feed_queue[product])
     IN  market_candles' = [market_candles EXCEPT ![product] =
           IF feed_processor[product] = "_binance_consume_feed"
             THEN binance_consume_feed(@, msg)
             ELSE papertrader_consume_feed(@, msg)]
  /\ feed_queue' = [feed_queue EXCEPT ![product] = Tail(@)]
  /\ UNCHANGED <<markets, feed_processor, feed_thread, data_indices, feed_cursor,
                 enqueued, n_ws, ws_msg>>

\* ================================================ the paper feed's shutdown
\* PaperTrader.stop_feed, the place of a caller of close() and the place of
\* _feed_generator_thread: at the test of its while loop, in a pass of its
\* for loop, in the sleep after a pass, or past the loop.
VARIABLES stop_feed, close_at, generator_at

closevars == <<stop_feed, close_at, generator_at>>

CloseInit ==
  /\ stop_feed = FALSE
  /\ close_at = "idle"
  /\ generator_at = "none"

\* PaperTrader.market_init(market): registers the feed processor and, when
\* self.feed_thread is None, clears stop_feed and starts the thread.
PaperMarketInitStart(product) ==
  /\ PaperMarketInit(product)
  /\ stop_feed' = IF feed_thread = "none" THEN FALSE ELSE stop_feed
  /\ generator_at' = IF feed_thread = "none" THEN "while" ELSE generator_at
  /\ UNCHANGED close_at

\* `while not self.stop_feed:` of _feed_generator_thread.
GeneratorTest ==
  /\ generator_at = "while"
  /\ generator_at' = IF stop_feed THEN "stopped" ELSE "for"
  /\ UNCHANGED <<stop_feed, close_at, feedvars>>

\* One turn of the for loop; stop_feed is not read in the pass.  After the
\* last product the thread sleeps candle_interval / 10 seconds.
GeneratorTurn ==
  /\ generator_at = "for"
  /\ FeedGenerate \/ FeedSkip
  /\ generator_at' = IF feed_cursor = Len(PaperProducts) THEN "sleep" ELSE "for"
  /\ UNCHANGED <<stop_feed, close_at>>

\* The sleep ends.
GeneratorWake ==
  /\ generator_at = "sleep"
  /\ generator_at' = "while"
  /\ UNCHANGED <<stop_feed, close_at, feedvars>>

\* close() up to its join: stop_feed = True, and the join is entered only
\* when there is a feed thread.
CloseCall ==
  /\ close_at = "idle"
  /\ stop_feed' = TRUE
  /\ close_at' = IF feed_thread # "none" THEN "joining" ELSE "returned"
  /\ UNCHANGED <<generator_at, feedvars>>

\* self.feed_thread.join(timeout=2) returns: the thread has ended, or the
\* two seconds have passed wherever the thread is.
CloseJoinReturns ==
  /\ close_at = "joining"
  /\ close_at' = "returned"
  /\ UNCHANGED <<stop_feed, generator_at, feedvars>>

\* ============================================================ the backfill
\* interval_to_milliseconds of the configured backfill_interval ('5m', '15m'),
\* and the interval Binance.get_historic_rates asks the venue for
\* (Client.KLINE_INTERVAL_5MINUTE).
BackfillIntervals == {300000, 900000}
KLINE_INTERVAL_5MINUTE == 300000
\* The candle interval of the Robinhood adapter, in seconds.
candle_interval == 300
\* The start and the end of a backfill, in seconds since the epoch.
BackfillStarts == {0, 60, 300, 360, 600}
BackfillEnds == {600, 900, 1260, 1500, 1800, 2100, 2400, 2700}

Min(a, b) == IF a < b THEN a ELSE b

RECURSIVE SeqOfSet(_)
\* The numbers of a set in increasing order.
SeqOfSet(S) ==
  IF S = {} THEN <<>>
  ELSE LET m == CHOOSE x \in S : \A y \in S : x <= y
       IN  <<m>> \o SeqOfSet(S \ {m})

\* The venue's klines of an interval (ms): their open times up to the last
\* end of a backfill.
venue_klines(interval) ==
  {interval * n : n \in 0..((1000 * 2700) \div interval)}

\* public_client.get_klines(interval, limit, startTime, endTime): the first
\* limit klines with startTime <= open time <= endTime, as [open, close].
get_klines(interval, limit, startTime, endTime) ==
  LET opens == SeqOfSet({t \in venue_klines(interval) : startTime <= t /\ t <= endTime})
  IN  [i \in 1..Min(limit, Len(opens)) |-> <<opens[i], opens[i] + interval - 1>>]

RECURSIVE binance_pages(_, _, _, _, _)
\* The while loop of Binance.get_historic_rates: the candle times it collects.
\* An empty answer ends the call with None.
binance_pages(start, tmp_end, end, td, candles_list) ==
  IF ~(start < end) THEN [ok |-> TRUE, candles |-> candles_list]
  ELSE LET start_ts == start * 1000
           end_ts == tmp_end * 1000
           candles == get_klines(KLINE_INTERVAL_5MINUTE, PageCandles, start_ts, end_ts)
       IN  IF candles = <<>> THEN [ok |-> FALSE, candles |-> <<>>]
           ELSE binance_pages(tmp_end, Min(tmp_end + td, end), end, td,
                  candles_list \o [i \in DOMAIN candles |-> (candles[i][2] + 1) \div 1000])

\* Binance.get_historic_rates(product_id, start, end) with backfill_interval
\* interval.
binance_get_historic_rates(start, end, interval) ==
  LET td == (PageCandles * interval) \div 1000
      tmp_end == Min(start + td, end)
  IN  binance_pages(start + timeOffset, tmp_end + timeOffset, end, td, <<>>)

\* yahoofin_client.get_historic_candles(interval, start_time, end_time): the
\* timestamps of the candles from start_time to end_time.
get_historic_candles(interval, start_time, end_time) ==
  SeqOfSet({t \in {interval * n : n \in 0..(2700 \div interval)} :
              start_time <= t /\ t <= end_time})

RECURSIVE robinhood_pages(_, _, _, _, _)
\* The while loop of Robinhood.get_historic_rates.
robinhood_pages(start, tmp_end, end, td, candles_list) ==
  IF ~(start < end) THEN [ok |-> TRUE, candles |-> candles_list]
  ELSE LET t == get_historic_candles(candle_interval, start, tmp_end)
       IN  robinhood_pages(tmp_end, Min(tmp_end + td, end), end, td, candles_list \o t)

RECURSIVE dedu_dict(_, _)
\* "attempt a de-duplication": the keys of dedu_dict in insertion order.
dedu_dict(candles_list, seen) ==
  IF candles_list = <<>> THEN <<>>
  ELSE IF Head(candles_list) \in seen THEN dedu_dict(Tail(candles_list), seen)
  ELSE <<Head(candles_list)>> \o
         dedu_dict(Tail(candles_list), seen \cup {Head(candles_list)})

\* Robinhood.get_historic_rates(product_id, start, end).
robinhood_get_historic_rates(start, end) ==
  LET td == RobinhoodPageCandles * candle_interval
      r == robinhood_pages(start + timeOffset, Min(start + td, end) + timeOffset,
                           end, td, <<>>)
  IN  [r EXCEPT !.candles = dedu_dict(@, {})]

VARIABLES
  backfill         \* the last get_historic_rates call and what it returned

backfillvars == <<backfill>>

Backfill(adapter, start, end, interval, r) ==
  [adapter |-> adapter, start |-> start, end |-> end, interval |-> interval,
   ok |-> r.ok, candles |-> r.candles]

BackfillInit ==
  backfill = Backfill("", 0, 0, 0, [ok |-> FALSE, candles |-> <<>>])

BinanceGetHistoricRates(start, end, interval) ==
  backfill' = Backfill("binance", start, end, interval,
                       binance_get_historic_rates(start, end, interval))

RobinhoodGetHistoricRates(start, end) ==
  backfill' = Backfill("robinhood", start, end, 1000 * candle_interval,
                       robinhood_get_historic_rates(start, end))

\* ------------------------------------------- the backfill loop, step by step
\* What public_client.get_klines answers with: the klines of the window, an
\* error payload (a dict with a 'message') or nothing.
VenueReplies == {"klines", "error", "nothing"}

VARIABLES
  pager            \* the locals of a Binance.get_historic_rates call in progress

pagervars == <<pager>>

Pager(at, start, tmp_end, end, td, count, candles_list, returned) ==
  [pc |-> at, start |-> start, tmp_end |-> tmp_end, end |-> end, td |-> td,
   count |-> count, candles_list |-> candles_list, returned |-> returned]

PagerInit == pager = Pager("idle", 0, 0, 0, 0, 0, <<>>, "")

\* Binance.get_historic_rates(product_id, start, end) up to its while loop.
PagerStart(start, end, interval) ==
  /\ pager.pc = "idle"
  /\ LET td == (PageCandles * interval) \div 1000
         tmp_end == Min(start + td, end)
     IN  pager' = Pager("loop", start + timeOffset, tmp_end + timeOffset, end, td,
                        0, <<>>, "")

\* One test of "while (start < end)" and, if it holds, one pass of the body,
\* the venue answering with reply.
PagerIterate(reply) ==
  /\ pager.pc = "loop"
  /\ IF ~(pager.start < pager.end)
       THEN pager' = [pager EXCEPT !.pc = "returned", !.returned = "candles_list"]
       ELSE
         LET count == IF pager.count + 1 > 3 THEN 0 ELSE pager.count + 1
             candles == IF reply = "klines"
                          THEN get_klines(KLINE_INTERVAL_5MINUTE, PageCandles,
                                          pager.start * 1000, pager.tmp_end * 1000)
                          ELSE <<>>
         IN  IF reply = "error"
               THEN pager' = [pager EXCEPT !.count = count]
             ELSE IF candles = <<>>
               THEN pager' = [pager EXCEPT !.count = count, !.pc = "returned",
                                           !.returned = "None"]
             ELSE pager' =
                    [pager EXCEPT
                       !.count = count,
                       !.candles_list =
                          @ \o [i \in DOMAIN candles |-> (candles[i][2] + 1) \div 1000],
                       !.start = pager.tmp_end,
                       !.tmp_end = Min(pager.tmp_end + pager.td, pager.end)]

\* ====================================================== the OpenAlgo adapter
\* A symbol is the sequence of its characters.
NIFTY ==
  <<"N", "I", "F", "T", "Y">>
BANKNIFTY ==
  <<"B", "A", "N", "K", "N", "I", "F", "T", "Y">>
NFO == <<"N", "F", "O", ":">>
UpperCase ==
  {"A", "B", "C", "D", "E", "F", "G", "H", "I", "J", "K", "L", "M",
   "N", "O", "P", "Q", "R", "S", "T", "U", "V", "W", "X", "Y", "Z"}

\* The products of the configuration: the old symbol format, with dashes, and
\* the new one, without ("BANKNIFTY25NOV2546500PE"), with and without "NFO:".
Symbol_NIFTY_old ==
  <<"N", "F", "O", ":", "N", "I", "F", "T", "Y", "-", "2", "4", "J", "A",
  "N", "2", "5", "-", "2", "2", "0", "0", "0", "-", "C", "E">>
Symbol_BANKNIFTY_new ==
  <<"B", "A", "N", "K", "N", "I", "F", "T", "Y", "2", "5", "N", "O", "V",
  "2", "5", "4", "6", "5", "0", "0", "P", "E">>
Symbol_BANKNIFTY_nfo ==
  <<"N", "F", "O", ":", "B", "A", "N", "K", "N", "I", "F", "T", "Y", "2",
  "5", "N", "O", "V", "2", "5", "4", "6", "5", "0", "0", "P", "E">>
Symbol_unlisted ==
  <<"X", "Y", "Z", "-", "2", "4", "J", "A", "N", "2", "5", "-", "1", "0",
  "0", "-", "C", "E">>
OpenAlgoSymbols ==
  {Symbol_NIFTY_old, Symbol_BANKNIFTY_new, Symbol_BANKNIFTY_nfo, Symbol_unlisted}

\* The lots and the price of an order; size 0 is the default of buy and sell.
OrderSizes == {0, 1, 2, 3}
LimitPrices == {0, 100}

\* self.lot_sizes = {**NSE_LOT_SIZES, **custom_lot_sizes}, for the symbols of
\* the configuration; get(base_symbol, 1).
lot_sizes_get(base_symbol) ==
  IF base_symbol = NIFTY THEN 50
  ELSE IF base_symbol = BANKNIFTY THEN 15
  ELSE 1

StartsWith(str, pat) ==
  Len(str) >= Len(pat) /\ SubSeq(str, 1, Len(pat)) = pat

RECURSIVE str_replace(_, _)
\* str.replace(pat, ''): every occurrence of pat is taken out.
str_replace(str, pat) ==
  IF str = <<>> THEN <<>>
  ELSE IF StartsWith(str, pat) THEN str_replace(SubSeq(str, Len(pat) + 1, Len(str)), pat)
  ELSE <<Head(str)>> \o str_replace(Tail(str), pat)

RECURSIVE split_first(_, _)
\* str.split(sep)[0]: the part before the first sep.
split_first(str, sep) ==
  IF str = <<>> \/ Head(str) = sep THEN <<>>
  ELSE <<Head(str)>> \o split_first(Tail(str), sep)

RECURSIVE match_upper(_)
\* re.match(r'^([A-Z]+)', str).group(1), and <<>> when there is no match.
match_upper(str) ==
  IF str = <<>> \/ Head(str) \notin UpperCase THEN <<>>
  ELSE <<Head(str)>> \o match_upper(Tail(str))

Contains(str, c) == \E i \in DOMAIN str : str[i] = c

\* __init__: the lot_size of the product_info of a configured symbol.
product_lot_size(symbol) ==
  LET stripped == str_replace(symbol, NFO)
      base_symbol ==
        IF Contains(stripped, "-") THEN split_first(stripped, "-")
        ELSE IF match_upper(stripped) # <<>> THEN match_upper(stripped)
        ELSE stripped
  IN  lot_sizes_get(base_symbol)

\* get_products(): the product list, with the lot sizes it reports.
openalgo_products ==
  [symbol \in OpenAlgoSymbols |-> [id |-> symbol, lot_size |-> product_lot_size(symbol)]]

\* get_lot_size(symbol).
get_lot_size(symbol) ==
  lot_sizes_get(split_first(str_replace(symbol, NFO), "-"))

\* buy and sell: the order_params handed to client.placeorder.
order_params(symbol, action, price, size) ==
  LET lot_size == get_lot_size(symbol)
      quantity == IF size > 0 THEN size * lot_size ELSE lot_size
  IN  [symbol |-> symbol, action |-> action, quantity |-> quantity,
       price |-> IF price > 0 THEN price ELSE 0,
       order_type |-> IF price = 0 THEN "MARKET" ELSE "LIMIT"]

VARIABLES
  placed           \* the last buy or sell: its arguments, the order_params sent
                   \* to the venue and what the call returned

openalgovars == <<placed>>

Placed(call, symbol, size, params, returned) ==
  [call |-> call, symbol |-> symbol, size |-> size, params |-> params,
   returned |-> returned]

OpenAlgoInit ==
  placed = Placed("", <<>>, 0, order_params(<<>>, "", 0, 0), "none")

\* buy(product, price, size); the venue answers 'success' or not.
OpenAlgoBuy(symbol, price, size, success) ==
  placed' = Placed("buy", symbol, size, order_params(symbol, "BUY", price, size),
                   IF success THEN "order" ELSE "none")

\* sell(product, price, size).
OpenAlgoSell(symbol, price, size, success) ==
  placed' = Placed("sell", symbol, size, order_params(symbol, "SELL", price, size),
                   IF success THEN "order" ELSE "none")

\* ============================================= the Binance order operations
\* What the venue call of an operation does: it returns a response with an
\* orderId and a status, returns nothing, or raises.
VenueOrderIds == {12345, 12346}
VenueErrors == {"BinanceAPIException", "BinanceRequestException", "Exception"}
VenueAnswers ==
  {[kind |-> "response", orderId |-> id, status |-> st] :
     id \in VenueOrderIds, st \in {"NEW", "FILLED", "CANCELED"}}
    \cup {[kind |-> "empty", orderId |-> 0, status |-> Absent]}
    \cup {[kind |-> e, orderId |-> 0, status |-> Absent] : e \in VenueErrors}

\* trade_req.type (absent on a request without the attribute) and
\* trade_req.price.
OrderTypes == {"market", "MARKET", "limit", "stop_loss", Absent}
RequestPrices == {0, 50000}

\* str.upper() of an order type.
Upper(type) ==
  CASE type \in {"market", "MARKET"} -> "MARKET"
    [] type \in {"limit", "LIMIT"} -> "LIMIT"
    [] type = "stop_loss" -> "STOP_LOSS"

\* str(order_id).
Str(order_id) ==
  CASE order_id = 12345 -> "12345"
    [] order_id = 12346 -> "12346"

\* What an operation does: it returns an Order, None or a bool, or an
\* exception leaves it.
OpResult(kind, exc, id, side, ok, order) ==
  [kind |-> kind, exc |-> exc, id |-> id, side |-> side, ok |-> ok, order |-> order]
OpNone == OpResult("none", "", "", "", FALSE, Order("", 0, 0, 0))
OpRaise(exc) == OpResult("raise", exc, "", "", FALSE, Order("", 0, 0, 0))
OpBool(ok) == OpResult("bool", "", "", "", ok, Order("", 0, 0, 0))

\* The except clauses with the last one, "except Exception", missing.
binance_except_api_only(r) ==
  IF r.kind = "raise" /\ r.exc \in {"BinanceAPIException", "BinanceRequestException"}
    THEN OpNone ELSE r

\* The except clauses of buy, sell and get_order: every exception is logged
\* and None is returned.
binance_except(r) == IF r.kind = "raise" THEN OpNone ELSE r

\* The except clauses of cancel_order: every exception gives False.
binance_except_false(r) == IF r.kind = "raise" THEN OpBool(FALSE) ELSE r

\* The try block of Binance.buy (side 'buy') and Binance.sell (side 'sell').
binance_try_place(side, auth_client, product_info, type, price, size, venue) ==
  IF ~auth_client THEN OpNone
  ELSE IF ~product_info THEN OpNone
  ELSE LET order_type == IF type = Absent THEN "MARKET" ELSE Upper(type)
           has_price == price # 0
       IN  IF order_type = "LIMIT" /\ ~has_price THEN OpNone
           ELSE IF order_type \notin {"MARKET", "LIMIT"} THEN OpNone
           ELSE IF venue.kind \in VenueErrors THEN OpRaise(venue.kind)
           ELSE IF venue.kind = "empty" THEN OpNone
           ELSE OpResult("order", "", Str(venue.orderId), side, TRUE,
                         binance_buy(venue.status, size, size).order)

\* Binance.buy(trade_req) and Binance.sell(trade_req).
binance_place(side, auth_client, product_info, type, price, size, venue) ==
  binance_except(binance_try_place(side, auth_client, product_info, type, price,
                                   size, venue))

\* Binance.get_order(product_id, order_id).
binance_get(auth_client, product_info, venue) ==
  binance_except(
    IF ~auth_client THEN OpNone
    ELSE IF ~product_info THEN OpNone
    ELSE IF venue.kind \in VenueErrors THEN OpRaise(venue.kind)
    ELSE IF venue.kind = "empty" THEN OpNone
    ELSE OpResult("order", "", Str(venue.orderId), "", TRUE,
                  binance_get_order(venue.status, 1, 1).order))

\* Binance.cancel_order(product_id, order_id).
binance_cancel_order(auth_client, product_info, venue) ==
  binance_except_false(
    IF ~auth_client THEN OpBool(FALSE)
    ELSE IF ~product_info THEN OpBool(FALSE)
    ELSE IF venue.kind \in VenueErrors THEN OpRaise(venue.kind)
    ELSE OpBool(venue.kind = "response" /\ venue.status = "CANCELED"))

VARIABLES
  binance_op       \* the last order operation: its call and what it returned

binanceopvars == <<binance_op>>

Op(call, auth_client, product_info, type, price, venue, r) ==
  [call |-> call, auth_client |-> auth_client, product_info |-> product_info,
   type |-> type, price |-> price, venue |-> venue, r |-> r]

BinanceOpsInit ==
  binance_op = Op("", FALSE, FALSE, Absent, 0,
                  [kind |-> "empty", orderId |-> 0, status |-> Absent], OpNone)

BinancePlace(side, auth_client, product_info, type, price, venue) ==
  binance_op' = Op(side, auth_client, product_info, type, price, venue,
                   binance_place(side, auth_client, product_info, type, price, 1, venue))

BinanceGet(auth_client, product_info, venue) ==
  binance_op' = Op("get_order", auth_client, product_info, Absent, 0, venue,
                   binance_get(auth_client, product_info, venue))

BinanceCancelOrder(auth_client, product_info, venue) ==
  binance_op' = Op("cancel_order", auth_client, product_info, Absent, 0, venue,
                   binance_cancel_order(auth_client, product_info, venue))

\* ========================================================= the strategies
\* A closed candle of the series with the indicator values the host has
\* computed for it.
Bar(high, low, close, ATR, ADX) ==
  [high |-> high, low |-> low, close |-> close, ATR |-> ATR, ADX |-> ADX]
Bars ==
  {Bar(close + 2, close - 2, close, 1, adx) : close \in {10, 30}, adx \in {20, 30}}

\* The candles the host delivers to a strategy of the class: the random
\* strategies read nothing of the series but its length.
BarsFor(name) ==
  IF name = "Supertrend_ADX" THEN Bars ELSE {Bar(12, 8, 10, 1, 20)}

\* A value that is None.
NoValue == -1
\* Supertrend_ADX.__init__: the defaults of the parameters.
atr_multiplier == 3
adx_threshold == 25
trailing_atr_multiplier == 2
\* RANDOM_TRADER.config: the range of max_signal_strength.
MaxSignalStrengths == 1..3
StrategyNames == {"Supertrend_ADX", "RANDOM_TRADER", "AGGRESSIVE_RANDOM", "SIMPLE_RANDOM"}

\* self.indicator(candles, name, period): the value at the latest candle, None
\* while the series is shorter than the indicator's window.
indicator(candles, name, window) ==
  IF Len(candles) < window THEN NoValue
  ELSE IF name = "ATR" THEN candles[Len(candles)].ATR ELSE candles[Len(candles)].ADX

\* candles[:-1]
AllButLast(candles) == SubSeq(candles, 1, Len(candles) - 1)

\* The guard every generate_signal starts with, always false.
in_warmup_never(candles, period) == FALSE

\* "if len(candles) < self.period: return 0"
in_warmup(candles, period) == Len(candles) < period

\* Strategy.__init__ of the four strategies: the state of an instance.
StrategyInstance(max_signal_strength) ==
  [max_signal_strength |-> max_signal_strength,
   supertrend |-> NoValue, supertrend_direction |-> 0,
   final_upper_band |-> NoValue, final_lower_band |-> NoValue,
   entry_price |-> NoValue, trailing_sl |-> NoValue,
   position |-> "", position_candles |-> 0, candles_in_position |-> 0,
   candle_count |-> 0, last_action |-> "", last_signal |-> 0]

\* What a call of a method of a strategy does: the instance afterwards and
\* what the call returned.
SupertrendResult(self, value, direction) ==
  [self |-> self, value |-> value, direction |-> direction]
SignalResult(self, signal, evaluated, direction, prev_direction) ==
  [self |-> self, signal |-> signal, evaluated |-> evaluated,
   direction |-> direction, prev_direction |-> prev_direction]

\* Supertrend_ADX.calculate_supertrend(candles)
calculate_supertrend(self, candles) ==
  IF Len(candles) < atr_period + 1 THEN SupertrendResult(self, NoValue, 0)
  ELSE
    LET cur_candle == candles[Len(candles)]
        prev_candle == candles[Len(candles) - 1]
        atr == indicator(candles, "ATR", atr_period)
    IN  IF atr = NoValue THEN SupertrendResult(self, NoValue, 0)
        ELSE
          LET hl_avg == (cur_candle.high + cur_candle.low) \div 2
              basic_upper_band == hl_avg + atr_multiplier * atr
              basic_lower_band == hl_avg - atr_multiplier * atr
              final_upper_band ==
                IF self.final_upper_band = NoValue THEN basic_upper_band
                ELSE IF \/ basic_upper_band < self.final_upper_band
                        \/ prev_candle.close > self.final_upper_band
                  THEN basic_upper_band ELSE self.final_upper_band
              final_lower_band ==
                IF self.final_upper_band = NoValue THEN basic_lower_band
                ELSE IF \/ basic_lower_band > self.final_lower_band
                        \/ prev_candle.close < self.final_lower_band
                  THEN basic_lower_band ELSE self.final_lower_band
              bearish == cur_candle.close <= final_upper_band
              supertrend == IF bearish THEN final_upper_band ELSE final_lower_band
              direction == IF bearish THEN -1 ELSE 1
          IN  SupertrendResult(
                [self EXCEPT !.final_upper_band = final_upper_band,
                             !.final_lower_band = final_lower_band,
                             !.supertrend = supertrend,
                             !.supertrend_direction = direction],
                supertrend, direction)

\* Supertrend_ADX._update_trailing_sl(current_price, atr)
update_trailing_sl(self, current_price, atr) ==
  IF self.entry_price = NoValue \/ atr = NoValue THEN self
  ELSE LET new_sl == current_price - atr * trailing_atr_multiplier
       IN  IF self.trailing_sl = NoValue \/ new_sl > self.trailing_sl
             THEN [self EXCEPT !.trailing_sl = new_sl] ELSE self

\* Supertrend_ADX._reset_trailing_sl()
reset_trailing_sl(self) ==
  [self EXCEPT !.entry_price = NoValue, !.trailing_sl = NoValue]

\* Supertrend_ADX.generate_signal(candles)
supertrend_adx_generate_signal(self, candles) ==
  IF in_warmup(candles, Warmup) THEN SignalResult(self, 0, FALSE, 0, 0)
  ELSE
    LET cur_candle == candles[Len(candles)]
        current_price == cur_candle.close
        cur == calculate_supertrend(self, candles)
        supertrend_value == cur.value
        direction == cur.direction
        adx == indicator(candles, "ADX", adx_period)
    IN  IF supertrend_value = NoValue \/ adx = NoValue
          THEN SignalResult(cur.self, 0, TRUE, direction, 0)
        ELSE
          LET prev == IF Len(candles) > 1
                        THEN calculate_supertrend(cur.self, AllButLast(candles))
                        ELSE SupertrendResult(cur.self, NoValue, 0)
              prev_direction == prev.direction
              atr == indicator(candles, "ATR", atr_period)
              trailed == update_trailing_sl(prev.self, current_price, atr)
          IN  IF trailed.trailing_sl > 0 /\ current_price <= trailed.trailing_sl
                THEN SignalResult(reset_trailing_sl(trailed), -3, TRUE,
                                  direction, prev_direction)
              ELSE
                LET turns_bullish == direction = 1 /\ prev_direction # 1
                    turns_bearish == direction = -1 /\ prev_direction # -1
                    strong == adx * 10 >= adx_threshold * 12
                    buy ==
                      IF turns_bullish
                        THEN IF adx >= adx_threshold THEN 3 ELSE 2
                      ELSE IF direction = 1 /\ current_price > supertrend_value /\ strong
                        THEN 1 ELSE 0
                    signal ==
                      IF turns_bearish
                        THEN IF adx >= adx_threshold THEN -3 ELSE -2
                      ELSE IF direction = -1 /\ current_price < supertrend_value /\ strong
                        THEN -1 ELSE buy
                    entered ==
                      IF turns_bullish
                        THEN [trailed EXCEPT !.entry_price = current_price]
                        ELSE trailed
                    after == IF turns_bearish THEN reset_trailing_sl(entered) ELSE entered
                IN  SignalResult(after, signal, TRUE, direction, prev_direction)

\* What the random module draws during one call of a strategy that draws
\* nothing, of a RANDOM_TRADER and of an AGGRESSIVE_RANDOM.
Draw(exit, enter, direction, strength, hold) ==
  [exit |-> exit, enter |-> enter, direction |-> direction, strength |-> strength,
   hold |-> hold]
NoDraws == {Draw(FALSE, FALSE, "buy", 1, 3)}
RandomTraderDraws ==
  {Draw(exit, enter, direction, strength, 3) :
     exit \in BOOLEAN, enter \in BOOLEAN, direction \in {"buy", "sell"},
     strength \in MaxSignalStrengths}
AggressiveRandomDraws ==
  {Draw(FALSE, enter, direction, 1, hold) :
     enter \in BOOLEAN, direction \in {"buy", "sell"}, hold \in 3..5}
Draws(name) ==
  CASE name = "RANDOM_TRADER" -> RandomTraderDraws
    [] name = "AGGRESSIVE_RANDOM" -> AggressiveRandomDraws
    [] OTHER -> NoDraws

\* RANDOM_TRADER.generate_signal(candles); rnd.exit is
\* "random.randint(1, 100) <= 30", rnd.enter is
\* "random.randint(1, 100) <= self.trade_probability" and rnd.strength is
\* random.randint(1, self.max_signal_strength).
random_trader_generate_signal(self, candles, rnd) ==
  IF in_warmup(candles, Warmup) THEN SignalResult(self, 0, FALSE, 0, 0)
  ELSE
    LET held == IF self.position # ""
                  THEN [self EXCEPT !.position_candles = @ + 1] ELSE self
    IN  IF held.position # "" /\ held.position_candles >= hold_candles /\ rnd.exit
          THEN LET signal == IF held.position = "buy" THEN -rnd.strength
                             ELSE rnd.strength
               IN  SignalResult([held EXCEPT !.position = "", !.position_candles = 0,
                                             !.last_signal = signal],
                                signal, TRUE, 0, 0)
        ELSE IF held.position = "" /\ rnd.enter
          THEN LET signal == IF rnd.direction = "buy" THEN rnd.strength
                             ELSE -rnd.strength
               IN  SignalResult([held EXCEPT !.position = rnd.direction,
                                             !.position_candles = 0,
                                             !.last_signal = signal],
                                signal, TRUE, 0, 0)
        ELSE SignalResult(held, 0, TRUE, 0, 0)

\* AGGRESSIVE_RANDOM.generate_signal(candles); rnd.hold is
\* random.randint(3, 5) and rnd.enter is "random.randint(1, 100) <= 50".
aggressive_random_generate_signal(self, candles, rnd) ==
  IF in_warmup(candles, Warmup) THEN SignalResult(self, 0, FALSE, 0, 0)
  ELSE IF self.position # ""
    THEN LET held == [self EXCEPT !.candles_in_position = @ + 1]
         IN  IF held.candles_in_position >= rnd.hold
               THEN SignalResult([held EXCEPT !.position = "",
                                              !.candles_in_position = 0],
                                 IF held.position = "buy" THEN -3 ELSE 3, TRUE, 0, 0)
               ELSE SignalResult(held, 0, TRUE, 0, 0)
  ELSE IF rnd.enter
    THEN SignalResult([self EXCEPT !.position = rnd.direction,
                                   !.candles_in_position = 0],
                      IF rnd.direction = "buy" THEN 3 ELSE -3, TRUE, 0, 0)
  ELSE SignalResult(self, 0, TRUE, 0, 0)

\* SIMPLE_RANDOM.generate_signal(candles)
simple_random_generate_signal(self, candles) ==
  IF in_warmup(candles, Warmup) THEN SignalResult(self, 0, FALSE, 0, 0)
  ELSE
    LET counted == [self EXCEPT !.candle_count = @ + 1]
    IN  IF counted.candle_count >= trade_every_n_candles
          THEN IF counted.last_action = "buy"
                 THEN SignalResult([counted EXCEPT !.candle_count = 0,
                                                   !.last_action = "sell"],
                                   -2, TRUE, 0, 0)
                 ELSE SignalResult([counted EXCEPT !.candle_count = 0,
                                                   !.last_action = "buy"],
                                   2, TRUE, 0, 0)
        ELSE SignalResult(counted, 0, TRUE, 0, 0)

\* generate_signal of the strategy class of the given name.
generate_signal(name, self, candles, rnd) ==
  CASE name = "Supertrend_ADX" -> supertrend_adx_generate_signal(self, candles)
    [] name = "RANDOM_TRADER" -> random_trader_generate_signal(self, candles, rnd)
    [] name = "AGGRESSIVE_RANDOM" -> aggressive_random_generate_signal(self, candles, rnd)
    [] name = "SIMPLE_RANDOM" -> simple_random_generate_signal(self, candles)

\* What the host keeps of a call: everything but the instance.
Returns(r) ==
  [signal |-> r.signal, evaluated |-> r.evaluated, direction |-> r.direction,
   prev_direction |-> r.prev_direction]

VARIABLES
  strategy,        \* the class of the strategy of the instrument, "" before it is instantiated
  instance,        \* the strategy instance
  series,          \* the closed candles of the instrument
  evaluations,     \* the number of calls that went past the warmup guard
  result           \* what the last call of generate_signal returned

strategyvars == <<strategy, instance, series, evaluations, result>>

StrategyInit ==
  /\ strategy = ""
  /\ instance = StrategyInstance(3)
  /\ series = <<>>
  /\ evaluations = 0
  /\ result = Returns(SignalResult(StrategyInstance(3), 0, FALSE, 0, 0))

\* The host instantiates the strategy of the instrument.
Instantiate(name, max_signal_strength) ==
  /\ strategy = ""
  /\ name # "RANDOM_TRADER" => max_signal_strength = 3
  /\ strategy' = name
  /\ instance' = StrategyInstance(max_signal_strength)
  /\ UNCHANGED <<series, evaluations, result>>

\* The host on a newly closed candle: the candle joins the series and
\* generate_signal is invoked on the series.
OnClosedCandle(bar, rnd) ==
  /\ strategy # ""
  /\ bar \in BarsFor(strategy)
  /\ rnd \in Draws(strategy)
  /\ Len(series) < MaxBars
  /\ rnd.strength <= instance.max_signal_strength
  /\ LET r == generate_signal(strategy, instance, Append(series, bar), rnd)
     IN  /\ series' = Append(series, bar)
         /\ instance' = r.self
         /\ result' = Returns(r)
         /\ evaluations' = IF r.evaluated THEN evaluations + 1 ELSE evaluations
  /\ UNCHANGED strategy

\* ============================================ the VWAP_BB strategy's stop
\* "trailing_sl_percent=4"
trailing_sl_percent == 4

\* A closed candle with the values the host's indicators have for it: the
\* Bollinger bands, the VWAP and the 20-period average the strategy reads as
\* the volume average.  The closes are multiples of 25, so that 4 percent of
\* one is a whole number.
VwapBar(close, volume, VWAP) ==
  [close |-> close, volume |-> volume,
   BB |-> [upper |-> 2650, middle |-> 2550, lower |-> 2450],
   VWAP |-> VWAP, SMA |-> 10]
VwapBars ==
  {VwapBar(close, volume, 2350) : close \in {2300, 2400, 2450, 2700}, volume \in {10, 20}}

\* VWAP_BB.__init__: the trailing-stop state of an instance.
VWAP_BB == [entry_price |-> NoValue, highest_price |-> NoValue, trailing_sl |-> NoValue]

\* VWAP_BB._update_trailing_sl(current_price)
vwap_bb_update_trailing_sl(self, current_price) ==
  IF self.entry_price = NoValue THEN self
  ELSE
    LET highest_price ==
          IF self.highest_price = NoValue \/ current_price > self.highest_price
            THEN current_price ELSE self.highest_price
        sl_distance == (highest_price * trailing_sl_percent) \div 100
    IN  [self EXCEPT !.highest_price = highest_price,
                     !.trailing_sl = highest_price - sl_distance]

\* VWAP_BB._reset_trailing_sl()
vwap_bb_reset_trailing_sl(self) ==
  [self EXCEPT !.entry_price = NoValue, !.highest_price = NoValue,
               !.trailing_sl = NoValue]

\* VWAP_BB.generate_signal(candles): the instance afterwards and the signal.
vwap_bb_generate_signal(self, candles) ==
  IF Len(candles) < vwap_bb_period THEN [self |-> self, signal |-> 0]
  ELSE
    LET cur_candle == candles[Len(candles)]
        has_prev == Len(candles) > 1
        prev_close == IF has_prev THEN candles[Len(candles) - 1].close ELSE 0
        bb == cur_candle.BB
        vwap == cur_candle.VWAP
        volume_avg == cur_candle.SMA
        current_price == cur_candle.close
        updated == vwap_bb_update_trailing_sl(self, current_price)
    IN  IF updated.trailing_sl # NoValue /\ updated.trailing_sl # 0
           /\ current_price <= updated.trailing_sl
          THEN [self |-> vwap_bb_reset_trailing_sl(updated), signal |-> -3]
        ELSE
          LET near_lower_bb == current_price * 100 <= bb.lower * 102
              bouncing_up == has_prev /\ prev_close < bb.lower /\ current_price >= bb.lower
              above_vwap == current_price > vwap
              crossing_vwap == has_prev /\ prev_close <= vwap /\ current_price > vwap
              volume_high == IF volume_avg # 0 THEN cur_candle.volume * 10 > volume_avg * 13
                             ELSE FALSE
              strong_buy == bouncing_up /\ (above_vwap \/ crossing_vwap) /\ volume_high
              buy == ~strong_buy /\ near_lower_bb /\ above_vwap
              weak_buy == ~strong_buy /\ ~buy /\ crossing_vwap /\ current_price > bb.middle
              bought == IF strong_buy \/ buy
                          THEN [updated EXCEPT !.entry_price = current_price,
                                               !.highest_price = current_price]
                          ELSE updated
              buy_signal == IF strong_buy THEN 3 ELSE IF buy THEN 2
                            ELSE IF weak_buy THEN 1 ELSE 0
              near_upper_bb == current_price * 100 >= bb.upper * 98
              touching_upper == current_price >= bb.upper
              below_vwap == current_price < vwap
              crossing_vwap_down == has_prev /\ prev_close >= vwap /\ current_price < vwap
              strong_sell == touching_upper /\ (below_vwap \/ crossing_vwap_down)
              sell == ~strong_sell /\ near_upper_bb
              weak_sell == ~strong_sell /\ ~sell /\ crossing_vwap_down
          IN  IF strong_sell THEN [self |-> vwap_bb_reset_trailing_sl(bought), signal |-> -3]
              ELSE IF sell THEN [self |-> vwap_bb_reset_trailing_sl(bought), signal |-> -2]
              ELSE IF weak_sell THEN [self |-> bought, signal |-> -1]
              ELSE [self |-> bought, signal |-> buy_signal]

VARIABLES
  vwap_bb,            \* the VWAP_BB instance of the instrument
  vwap_series,        \* the closed candles of the instrument
  vwap_signal,        \* what the last call of generate_signal returned
  high_since_entry    \* the highest close since the buy that opened the position, or None

vwapvars == <<vwap_bb, vwap_series, vwap_signal, high_since_entry>>

VwapInit ==
  /\ vwap_bb = VWAP_BB
  /\ vwap_series = <<>>
  /\ vwap_signal = 0
  /\ high_since_entry = NoValue

\* The host on a newly closed candle: the candle joins the series and
\* generate_signal is invoked on the series.
VwapOnClosedCandle(bar) ==
  /\ Len(vwap_series) < MaxVwapBars
  /\ LET r == vwap_bb_generate_signal(vwap_bb, Append(vwap_series, bar))
     IN  /\ vwap_series' = Append(vwap_series, bar)
         /\ vwap_bb' = r.self
         /\ vwap_signal' = r.signal
         /\ high_since_entry' =
              IF r.self.entry_price = NoValue THEN NoValue
              ELSE IF high_since_entry = NoValue \/ bar.close > high_since_entry
                THEN bar.close ELSE high_since_entry

\* ===================================================== the circuit breaker
\* "success_threshold=2"
success_threshold == 2
\* A time that is None.
NoTime == -1
\* What the wrapped function does when it is invoked.
FuncOutcomes == {"return", "raise"}

\* CircuitBreaker.__init__
CircuitBreaker ==
  [state |-> "CLOSED", failure_count |-> 0, success_count |-> 0,
   last_failure_time |-> NoTime, opened_at |-> NoTime]

\* _close() without "self.opened_at = None".
cb_close_keeps_opened_at(self) ==
  [self EXCEPT !.state = "CLOSED", !.failure_count = 0, !.success_count = 0]

\* CircuitBreaker._close()
cb_close(self) ==
  [self EXCEPT !.state = "CLOSED", !.failure_count = 0, !.success_count = 0,
               !.opened_at = NoTime]

\* CircuitBreaker._open()
cb_open(self, now) ==
  [self EXCEPT !.state = "OPEN", !.opened_at = now, !.success_count = 0]

\* CircuitBreaker._half_open()
cb_half_open(self) == [self EXCEPT !.state = "HALF_OPEN", !.success_count = 0]

\* _on_success() without "self.failure_count = 0".
on_success_keeps_count(self) ==
  IF self.state = "HALF_OPEN"
    THEN LET counted == [self EXCEPT !.success_count = @ + 1]
         IN  IF counted.success_count >= success_threshold
               THEN cb_close(counted) ELSE counted
    ELSE self

\* CircuitBreaker._on_success()
on_success(self) ==
  LET cleared == [self EXCEPT !.failure_count = 0]
  IN  IF cleared.state = "HALF_OPEN"
        THEN LET counted == [cleared EXCEPT !.success_count = @ + 1]
             IN  IF counted.success_count >= success_threshold
                   THEN cb_close(counted) ELSE counted
        ELSE cleared

\* _on_failure() without its HALF_OPEN branch.
on_failure_counts_only(self, now) ==
  LET counted == [self EXCEPT !.failure_count = @ + 1, !.last_failure_time = now]
  IN  IF counted.failure_count >= failure_threshold
        THEN cb_open(counted, now) ELSE counted

\* CircuitBreaker._on_failure()
on_failure(self, now) ==
  LET counted == [self EXCEPT !.failure_count = @ + 1, !.last_failure_time = now]
  IN  IF counted.state = "HALF_OPEN" THEN cb_open(counted, now)
      ELSE IF counted.failure_count >= failure_threshold THEN cb_open(counted, now)
      ELSE counted

\* _should_attempt_reset() that answers True whenever the circuit has opened.
should_attempt_reset_at_once(self, now) == self.opened_at # NoTime

\* CircuitBreaker._should_attempt_reset()
should_attempt_reset(self, now) ==
  IF self.opened_at = NoTime THEN FALSE
  ELSE LET elapsed == now - self.opened_at
       IN  elapsed >= recovery_timeout

\* What a call does: the breaker afterwards, whether the wrapped function was
\* invoked, and what reaches the caller (the result, the function's
\* exception or a CircuitBreakerError).
CallResult(self, invoked, kind, exc) ==
  [self |-> self, invoked |-> invoked, kind |-> kind, exc |-> exc]

\* CircuitBreaker.call(func): func does 'outcome' if it is invoked.
cb_call(self, outcome, now) ==
  IF self.state = "OPEN" /\ ~should_attempt_reset(self, now)
    THEN CallResult(self, FALSE, "raise", "CircuitBreakerError")
    ELSE LET tried == IF self.state = "OPEN" THEN cb_half_open(self) ELSE self
         IN  IF outcome = "return"
               THEN CallResult(on_success(tried), TRUE, "return", "")
               ELSE CallResult(on_failure(tried, now), TRUE, "raise", "func")

\* CircuitBreaker.reset()
cb_reset(self) == cb_close(self)

\* CircuitBreaker.force_open()
cb_force_open(self, now) == cb_open(self, now)

VARIABLES
  breaker,         \* the CircuitBreaker
  clock,           \* datetime.now(), in seconds
  breaker_out,     \* the last operation on the breaker and what it did
  streak,          \* the wrapped calls that failed in a row since the circuit closed
  successes        \* the wrapped calls that succeeded in a row since the circuit opened

breakervars == <<breaker, clock, breaker_out, streak, successes>>

BreakerOut(op, outcome, invoked, kind, exc) ==
  [op |-> op, outcome |-> outcome, invoked |-> invoked, kind |-> kind, exc |-> exc]

BreakerInit ==
  /\ breaker = CircuitBreaker
  /\ clock = 0
  /\ breaker_out = BreakerOut("", "", FALSE, "", "")
  /\ streak = 0
  /\ successes = 0

\* breaker.call(func)
BreakerCall(outcome) ==
  LET r == cb_call(breaker, outcome, clock)
  IN  /\ breaker' = r.self
      /\ breaker_out' = BreakerOut("call", outcome, r.invoked, r.kind, r.exc)
      /\ streak' = IF ~r.invoked THEN streak
                   ELSE IF outcome = "return" THEN 0 ELSE streak + 1
      /\ successes' = IF ~r.invoked THEN successes
                      ELSE IF outcome = "raise" THEN 0
                      ELSE IF breaker.state = "CLOSED" THEN successes
                      ELSE successes + 1
      /\ UNCHANGED clock

\* breaker.reset()
BreakerReset ==
  /\ breaker' = cb_reset(breaker)
  /\ breaker_out' = BreakerOut("reset", "", FALSE, "return", "")
  /\ streak' = 0
  /\ successes' = 0
  /\ UNCHANGED clock

\* breaker.force_open()
BreakerForceOpen ==
  /\ breaker' = cb_force_open(breaker, clock)
  /\ breaker_out' = BreakerOut("force_open", "", FALSE, "return", "")
  /\ successes' = 0
  /\ UNCHANGED <<clock, streak>>

\* A second passes.
BreakerTick ==
  /\ clock < MaxClock
  /\ clock' = clock + 1
  /\ UNCHANGED <<breaker, breaker_out, streak, successes>>

\* ============================================================ the system
\* What is at rest while the Risk Gate runs single-threaded.
\* The state of the components added to the system after the venue adapters.
restvars == <<feedvars, backfillvars, openalgovars, binanceopvars, strategyvars,
              breakervars, pagervars, closevars, vwapvars>>
others == <<threadvars, candlevars, busvars, ordervars, restvars>>
allvars == <<vars, threadvars, candlevars, busvars, ordervars, restvars>>
basevars == <<vars, threadvars, candlevars, busvars, ordervars>>

SysInit ==
  /\ Init /\ ThreadsInit /\ CandlesInit /\ BusInit /\ AdaptersInit
  /\ FeedInit /\ BackfillInit /\ OpenAlgoInit /\ BinanceOpsInit /\ StrategyInit
  /\ BreakerInit /\ PagerInit /\ CloseInit /\ VwapInit

\* The Risk Gate called by one thread; the threads of the other
\* specifications are at rest.
Next ==
  \/ /\ \E symbol \in Symbols, side \in Sides, lots \in Lots, price \in OrderPrices :
          CanPlaceOrder(symbol, side, lots, price)
     /\ UNCHANGED others
  \/ /\ \E symbol \in Symbols, side \in Sides :
          \E lots \in TradeLots(symbol), price \in TradePrices(symbol, side), pnl \in PnLs(side) :
            RecordTrade(symbol, side, lots, price, pnl)
     /\ UNCHANGED others
  \/ /\ \E symbol \in Symbols, price \in Prices : UpdatePositionPrice(symbol, price)
     /\ UNCHANGED others
  \/ ResetBlock /\ UNCHANGED others
  \/ CloseAllPositions /\ UNCHANGED others
  \/ Tick /\ UNCHANGED others
  \/ CrashInSave /\ UNCHANGED others
  \/ Start /\ UNCHANGED others
  \/ Restart /\ UNCHANGED others

Spec == SysInit /\ [][Next]_allvars

\* Two threads, each calling record_trade.
NextThreads ==
  \/ /\ \E t \in Threads, symbol \in Symbols, side \in Sides :
          \E lots \in TradeLots(symbol), price \in TradePrices(symbol, side), pnl \in PnLs(side) :
            RtAppend(t, symbol, side, lots, price, pnl)
     /\ UNCHANGED <<candlevars, busvars, ordervars, restvars>>
  \/ (\E t \in Threads : RtLoadPnl(t)) /\ UNCHANGED <<candlevars, busvars, ordervars, restvars>>
  \/ (\E t \in Threads : RtStorePnl(t)) /\ UNCHANGED <<candlevars, busvars, ordervars, restvars>>
  \/ (\E t \in Threads : RtPositions(t)) /\ UNCHANGED <<candlevars, busvars, ordervars, restvars>>
  \/ (\E t \in Threads : SaveBuild(t)) /\ UNCHANGED <<candlevars, busvars, ordervars, restvars>>
  \/ (\E t \in Threads : SaveDump(t)) /\ UNCHANGED <<candlevars, busvars, ordervars, restvars>>

SpecThreads == SysInit /\ [][NextThreads]_allvars

\* The Candle Store called by one market worker.
NextCandles ==
  \/ (\E candle \in Candles : DbSaveCandle(candle)) /\ UNCHANGED <<vars, threadvars, busvars, ordervars, restvars>>
  \/ (\E candles \in Batches : DbSaveCandles(candles)) /\ UNCHANGED <<vars, threadvars, busvars, ordervars, restvars>>
  \/ DbGetAllCandles /\ UNCHANGED <<vars, threadvars, busvars, ordervars, restvars>>
  \/ (\E after_time \in Times : DbGetCandlesAfterTime(after_time)) /\ UNCHANGED <<vars, threadvars, busvars, ordervars, restvars>>
  \/ (\E count \in Counts : DbGetRecentCandles(count)) /\ UNCHANGED <<vars, threadvars, busvars, ordervars, restvars>>
  \/ ClearCache /\ UNCHANGED <<vars, threadvars, busvars, ordervars, restvars>>
  \/ BackendDown /\ UNCHANGED <<vars, threadvars, busvars, ordervars, restvars>>
  \/ BackendUp /\ UNCHANGED <<vars, threadvars, busvars, ordervars, restvars>>

SpecCandles == SysInit /\ [][NextCandles]_allvars

\* The message-bus sink called by the owner of each order.
NextBus ==
  \/ (\E connected \in BOOLEAN : InitProducer(connected))
     /\ UNCHANGED <<vars, threadvars, candlevars, ordervars, restvars>>
  \/ (\E o \in Orders, outcome \in Outcomes : PublishOrderSubmitted(o, outcome))
     /\ UNCHANGED <<vars, threadvars, candlevars, ordervars, restvars>>
  \/ (\E o \in Orders, outcome \in Outcomes : PublishOrderExecuted(o, outcome))
     /\ UNCHANGED <<vars, threadvars, candlevars, ordervars, restvars>>
  \/ (\E o \in Orders, outcome \in Outcomes : PublishOrderRejected(o, outcome))
     /\ UNCHANGED <<vars, threadvars, candlevars, ordervars, restvars>>
  \/ (\E o \in Orders, outcome \in Outcomes : PublishOrderModified(o, outcome))
     /\ UNCHANGED <<vars, threadvars, candlevars, ordervars, restvars>>
  \/ (\E events \in BatchEvents, acked \in [1 .. 2 -> BOOLEAN], raise_at \in 0 .. 2 :
        PublishBatch(events, acked, raise_at))
     /\ UNCHANGED <<vars, threadvars, candlevars, ordervars, restvars>>
  \/ BrokerAck /\ UNCHANGED <<vars, threadvars, candlevars, ordervars, restvars>>
  \/ BrokerFail /\ UNCHANGED <<vars, threadvars, candlevars, ordervars, restvars>>

SpecBus == SysInit /\ [][NextBus]_allvars

\* The adapters called on the payloads of their venues.
NextAdapters ==
  \/ (\E state \in RobinhoodStates, side \in Sides \cup {Absent}, quantity \in Qtys,
         executions \in Executions : RobinhoodBuy(state, side, quantity, executions))
     /\ UNCHANGED <<vars, threadvars, candlevars, busvars, restvars>>
  \/ (\E state \in RobinhoodStates, side \in Sides \cup {Absent}, quantity \in Qtys,
         executions \in Executions : RobinhoodGetOrder(state, side, quantity, executions))
     /\ UNCHANGED <<vars, threadvars, candlevars, busvars, restvars>>
  \/ (\E status \in BinanceStatuses \cup {Absent}, quantity \in Qtys, executed_qty \in Qtys :
        BinanceBuy(status, quantity, executed_qty))
     /\ UNCHANGED <<vars, threadvars, candlevars, busvars, restvars>>
  \/ (\E status \in BinanceStatuses \cup {Absent}, orig_qty \in Qtys, executed_qty \in Qtys :
        BinanceGetOrder(status, orig_qty, executed_qty))
     /\ UNCHANGED <<vars, threadvars, candlevars, busvars, restvars>>
  \/ (\E size \in Qtys : PaperBuy(size))
     /\ UNCHANGED <<vars, threadvars, candlevars, busvars, restvars>>
  \/ PaperGetOrder /\ UNCHANGED <<vars, threadvars, candlevars, busvars, restvars>>
  \/ (\E msg \in PaperMessages : PaperOrderUpdate(msg))
     /\ UNCHANGED <<vars, threadvars, candlevars, busvars, restvars>>

SpecAdapters == SysInit /\ [][NextAdapters]_allvars

\* The market feeds: the adapters' feed threads and the markets' workers.
NextFeed ==
  \/ (\E msg \in BinanceMessages : BinanceFeedMsg(msg)) /\ UNCHANGED <<basevars, backfillvars, openalgovars, binanceopvars, strategyvars, breakervars, pagervars, closevars, vwapvars>>
  \/ BinanceMarketInit /\ UNCHANGED <<basevars, backfillvars, openalgovars, binanceopvars, strategyvars, breakervars, pagervars, closevars, vwapvars>>
  \/ (\E product \in DOMAIN csv_data : PaperMarketInit(product)) /\ UNCHANGED <<basevars, backfillvars, openalgovars, binanceopvars, strategyvars, breakervars, pagervars, closevars, vwapvars>>
  \/ (\E product \in FeedProducts : RegisterMarket(product)) /\ UNCHANGED <<basevars, backfillvars, openalgovars, binanceopvars, strategyvars, breakervars, pagervars, closevars, vwapvars>>
  \/ FeedGenerate /\ UNCHANGED <<basevars, backfillvars, openalgovars, binanceopvars, strategyvars, breakervars, pagervars, closevars, vwapvars>>
  \/ FeedSkip /\ UNCHANGED <<basevars, backfillvars, openalgovars, binanceopvars, strategyvars, breakervars, pagervars, closevars, vwapvars>>
  \/ (\E product \in FeedProducts : ConsumeFeed(product)) /\ UNCHANGED <<basevars, backfillvars, openalgovars, binanceopvars, strategyvars, breakervars, pagervars, closevars, vwapvars>>

SpecFeed == SysInit /\ [][NextFeed]_allvars

\* The backfill of the adapters.
NextBackfill ==
  \/ (\E start \in BackfillStarts, end \in BackfillEnds, interval \in BackfillIntervals :
        BinanceGetHistoricRates(start, end, interval))
     /\ UNCHANGED <<basevars, feedvars, openalgovars, binanceopvars, strategyvars, breakervars, pagervars, closevars, vwapvars>>
  \/ (\E start \in BackfillStarts, end \in BackfillEnds :
        RobinhoodGetHistoricRates(start, end))
     /\ UNCHANGED <<basevars, feedvars, openalgovars, binanceopvars, strategyvars, breakervars, pagervars, closevars, vwapvars>>

SpecBackfill == SysInit /\ [][NextBackfill]_allvars

\* The orders of the OpenAlgo adapter.
NextOpenAlgo ==
  \/ (\E symbol \in OpenAlgoSymbols, price \in LimitPrices, size \in OrderSizes,
         success \in BOOLEAN : OpenAlgoBuy(symbol, price, size, success))
     /\ UNCHANGED <<basevars, feedvars, backfillvars, binanceopvars, strategyvars, breakervars, pagervars, closevars, vwapvars>>
  \/ (\E symbol \in OpenAlgoSymbols, price \in LimitPrices, size \in OrderSizes,
         success \in BOOLEAN : OpenAlgoSell(symbol, price, size, success))
     /\ UNCHANGED <<basevars, feedvars, backfillvars, binanceopvars, strategyvars, breakervars, pagervars, closevars, vwapvars>>

SpecOpenAlgo == SysInit /\ [][NextOpenAlgo]_allvars

\* The order operations of the Binance adapter.
NextBinanceOps ==
  \/ (\E auth_client, product_info \in BOOLEAN, type \in OrderTypes,
         price \in RequestPrices, venue \in VenueAnswers :
        BinancePlace("buy", auth_client, product_info, type, price, venue))
     /\ UNCHANGED <<basevars, feedvars, backfillvars, openalgovars, strategyvars, breakervars, pagervars, closevars, vwapvars>>
  \/ (\E auth_client, product_info \in BOOLEAN, type \in OrderTypes,
         price \in RequestPrices, venue \in VenueAnswers :
        BinancePlace("sell", auth_client, product_info, type, price, venue))
     /\ UNCHANGED <<basevars, feedvars, backfillvars, openalgovars, strategyvars, breakervars, pagervars, closevars, vwapvars>>
  \/ (\E auth_client, product_info \in BOOLEAN, venue \in VenueAnswers :
        BinanceGet(auth_client, product_info, venue))
     /\ UNCHANGED <<basevars, feedvars, backfillvars, openalgovars, strategyvars, breakervars, pagervars, closevars, vwapvars>>
  \/ (\E auth_client, product_info \in BOOLEAN, venue \in VenueAnswers :
        BinanceCancelOrder(auth_client, product_info, venue))
     /\ UNCHANGED <<basevars, feedvars, backfillvars, openalgovars, strategyvars, breakervars, pagervars, closevars, vwapvars>>

SpecBinanceOps == SysInit /\ [][NextBinanceOps]_allvars

\* The Strategy Host of one instrument.
NextStrategy ==
  \/ (\E name \in StrategyNames, max_signal_strength \in MaxSignalStrengths :
        Instantiate(name, max_signal_strength))
     /\ UNCHANGED <<basevars, feedvars, backfillvars, openalgovars, binanceopvars, breakervars, pagervars, closevars, vwapvars>>
  \/ (\E bar \in Bars, rnd \in RandomTraderDraws \cup AggressiveRandomDraws \cup NoDraws :
        OnClosedCandle(bar, rnd))
     /\ UNCHANGED <<basevars, feedvars, backfillvars, openalgovars, binanceopvars, breakervars, pagervars, closevars, vwapvars>>

SpecStrategy == SysInit /\ [][NextStrategy]_allvars

\* The circuit breaker, its callers and the clock.
NextBreaker ==
  \/ (\E outcome \in FuncOutcomes : BreakerCall(outcome))
     /\ UNCHANGED <<basevars, feedvars, backfillvars, openalgovars, binanceopvars,
                    strategyvars, pagervars, closevars, vwapvars>>
  \/ BreakerReset
     /\ UNCHANGED <<basevars, feedvars, backfillvars, openalgovars, binanceopvars,
                    strategyvars, pagervars, closevars, vwapvars>>
  \/ BreakerForceOpen
     /\ UNCHANGED <<basevars, feedvars, backfillvars, openalgovars, binanceopvars,
                    strategyvars, pagervars, closevars, vwapvars>>
  \/ BreakerTick
     /\ UNCHANGED <<basevars, feedvars, backfillvars, openalgovars, binanceopvars,
                    strategyvars, pagervars, closevars, vwapvars>>

SpecBreaker == SysInit /\ [][NextBreaker]_allvars

\* One get_historic_rates call of the Binance adapter, pass by pass; the
\* thread that runs it keeps running.
NextPager ==
  \/ (\E start \in BackfillStarts, end \in BackfillEnds, interval \in BackfillIntervals :
        PagerStart(start, end, interval))
     /\ UNCHANGED <<basevars, feedvars, backfillvars, openalgovars, binanceopvars,
                    strategyvars, breakervars, closevars, vwapvars>>
  \/ (\E reply \in VenueReplies : PagerIterate(reply))
     /\ UNCHANGED <<basevars, feedvars, backfillvars, openalgovars, binanceopvars,
                    strategyvars, breakervars, closevars, vwapvars>>

SpecPager == SysInit /\ [][NextPager]_allvars /\ WF_allvars(NextPager)

\* The paper feed and its shutdown.
NextClose ==
  \/ (\E product \in DOMAIN csv_data : PaperMarketInitStart(product))
     /\ UNCHANGED <<basevars, backfillvars, openalgovars, binanceopvars, strategyvars,
                    breakervars, pagervars, vwapvars>>
  \/ ((\E product \in DOMAIN csv_data : RegisterMarket(product)) /\ UNCHANGED closevars)
     /\ UNCHANGED <<basevars, backfillvars, openalgovars, binanceopvars, strategyvars,
                    breakervars, pagervars, vwapvars>>
  \/ GeneratorTest
     /\ UNCHANGED <<basevars, backfillvars, openalgovars, binanceopvars, strategyvars,
                    breakervars, pagervars, vwapvars>>
  \/ GeneratorTurn
     /\ UNCHANGED <<basevars, backfillvars, openalgovars, binanceopvars, strategyvars,
                    breakervars, pagervars, vwapvars>>
  \/ GeneratorWake
     /\ UNCHANGED <<basevars, backfillvars, openalgovars, binanceopvars, strategyvars,
                    breakervars, pagervars, vwapvars>>
  \/ CloseCall
     /\ UNCHANGED <<basevars, backfillvars, openalgovars, binanceopvars, strategyvars,
                    breakervars, pagervars, vwapvars>>
  \/ CloseJoinReturns
     /\ UNCHANGED <<basevars, backfillvars, openalgovars, binanceopvars, strategyvars,
                    breakervars, pagervars, vwapvars>>

SpecClose == SysInit /\ [][NextClose]_allvars

\* The Strategy Host of one instrument run by VWAP_BB.
NextVwap ==
  (\E bar \in VwapBars : VwapOnClosedCandle(bar))
  /\ UNCHANGED <<basevars, feedvars, backfillvars, openalgovars, binanceopvars,
                 strategyvars, breakervars, pagervars, closevars>>

SpecVwap == SysInit /\ [][NextVwap]_allvars

\* ================================================================= claims
\* The kinds of step, told from the two states of the step.
RecordTradeStep == n_trades' = n_trades + 1
AdmitStep ==
  /\ ret'.call = "can_place_order" /\ today' = today
  /\ \E symbol \in Symbols, side \in Sides, lots \in Lots, price \in OrderPrices :
       CanPlaceOrder(symbol, side, lots, price)
UpdateStep == \E symbol \in Symbols, price \in Prices : UpdatePositionPrice(symbol, price)
Denied == ret.call = "can_place_order" /\ ~ret.ok

\* C1: once blocked, every can_place_order on the stored trading date is
\* denied and leaves blocked set, and record_trade, update_position_price
\* and close_all_positions leave blocked set: only reset_block or a date
\* rollover clears it.
C1_BlockedLatch ==
  [][ (blocked /\ running) =>
        /\ (AdmitStep /\ today = current_date) => (blocked' /\ ~ret'.ok)
        /\ (RecordTradeStep \/ UpdateStep \/ CloseAllPositions) => blocked' ]_vars

\* A denied admit on a latched block after a later trade has brought the
\* realized P&L back under the limit.
C1_Witness ==
  /\ blocked /\ Denied /\ ret.reason.prefix = "Trading blocked: "
  /\ Abs(daily_pnl) < config.max_daily_loss
  /\ n_trades = 2

\* C2: the daily-loss check of can_place_order is made on the total daily
\* P&L (realized + unrealized): an admit made while max_daily_loss > 0 and
\* the total is a loss of max_daily_loss or more is denied and leaves blocked
\* set, also when the loss is unrealized.
C2_DailyLossOnTotal ==
  (/\ ret.call = "can_place_order"
   /\ config.max_daily_loss > 0
   /\ RGeq(RInt(-config.max_daily_loss), get_daily_pnl(Self).total))
    => (blocked /\ ~ret.ok)

SelfNext ==
  [daily_pnl |-> daily_pnl', current_date |-> current_date',
   open_positions |-> open_positions', daily_trades |-> daily_trades',
   blocked |-> blocked', block_reason |-> block_reason']

C5_OpenPositionsCap ==
  config.max_open_positions > 0 =>
    Cardinality(DOMAIN open_positions) <= config.max_open_positions

\* C6: record_trade keeps the position accounting exact.  With t the trade
\* it appended: daily_pnl grows by t.pnl; a buy on no position opens it with
\* t.lots at t.price; a buy on a position adds the lots and makes the entry
\* price the lot-weighted average; a sell on a position takes the lots off
\* and keeps the entry price, or removes the entry when no lot is left; a
\* sell on no position and every other symbol's entry change nothing.
C6_PositionAccounting ==
  [][ RecordTradeStep =>
        LET t == daily_trades'[Len(daily_trades')]
            held == t.symbol \in DOMAIN open_positions
            old == open_positions[t.symbol]
            new == open_positions'[t.symbol]
        IN  /\ daily_trades' = Append(daily_trades, t)
            /\ daily_pnl' = daily_pnl + t.pnl
            /\ \A o \in Symbols \ {t.symbol} :
                 /\ o \in DOMAIN open_positions' <=> o \in DOMAIN open_positions
                 /\ o \in DOMAIN open_positions => open_positions'[o] = open_positions[o]
            /\ (t.side = "buy" /\ ~held) =>
                 /\ t.symbol \in DOMAIN open_positions'
                 /\ new.lots = t.lots
                 /\ new.entry_price = <<t.price, 1>>
            /\ (t.side = "buy" /\ held) =>
                 /\ t.symbol \in DOMAIN open_positions'
                 /\ new.lots = old.lots + t.lots
                 \* new.entry * new.lots = old.entry * old.lots + price * lots
                 /\ new.entry_price[1] * new.lots * old.entry_price[2] =
                      new.entry_price[2] *
                        (old.entry_price[1] * old.lots + t.price * t.lots * old.entry_price[2])
                 /\ new.current_price = old.current_price
            /\ (t.side = "sell" /\ held /\ old.lots > t.lots) =>
                 /\ t.symbol \in DOMAIN open_positions'
                 /\ new.lots = old.lots - t.lots
                 /\ new.entry_price = old.entry_price
            /\ (t.side = "sell" /\ held /\ old.lots <= t.lots) =>
                 t.symbol \notin DOMAIN open_positions'
            /\ (t.side = "sell" /\ ~held) => open_positions' = open_positions ]_vars

\* buy 2 @ 100, then buy 1 @ 130: 3 lots at the weighted average 110.
C6_Witness ==
  /\ "X" \in DOMAIN open_positions
  /\ open_positions["X"].lots = 3
  /\ open_positions["X"].entry_price = <<110, 1>>
  /\ n_trades = 2

\* C7: a can_place_order called on a date other than the stored trading date
\* rolls the date over before any other check: it leaves daily_pnl 0, no
\* daily trade, blocked and block_reason cleared and current_date = today,
\* it is not answered from the latch, and every open position is as before.
C7_Rollover ==
  [][ (today # current_date /\ AdmitStep) =>
        /\ daily_pnl' = 0
        /\ daily_trades' = <<>>
        /\ ~blocked'
        /\ block_reason' = None
        /\ current_date' = today
        /\ ret'.reason.prefix # "Trading blocked: "
        /\ open_positions' = open_positions ]_vars

\* The first admit of day 1, after two trades of day 0 that left a position.
C7_Witness ==
  /\ ret.call = "can_place_order"
  /\ current_date = 1 /\ today = 1
  /\ n_trades = 2 /\ daily_trades = <<>> /\ daily_pnl = 0 /\ ~blocked
  /\ DOMAIN open_positions # {}
  /\ file.status = "complete" /\ file.date = 1

\* __init__ ran in the step.
ConstructStep == Restart \/ Start

\* C8: when the RiskManager is constructed on a state file of another date,
\* the daily counters are reset and the open positions of the file are in
\* memory afterwards and still in the file.
C8_PositionsSurviveNewDay ==
  [][ (file.status = "complete" /\ file.date # today /\ ConstructStep) =>
        /\ daily_pnl' = 0 /\ daily_trades' = <<>> /\ ~blocked'
        /\ block_reason' = None
        /\ open_positions' = file.open_positions
        /\ file'.open_positions = file.open_positions ]_vars

\* C9: a RiskManager constructed on the trading date of the one before it
\* has the same open positions, daily P&L, daily trades, blocked flag and
\* block reason as that one had after its last call.
C9_RestartRoundTrip ==
  [][ (current_date = today /\ Restart) =>
        /\ open_positions' = open_positions
        /\ daily_pnl' = daily_pnl
        /\ daily_trades' = daily_trades
        /\ blocked' = blocked
        /\ block_reason' = block_reason
        /\ current_date' = current_date ]_vars

\* An object loaded from the file with a latched block, a trade and a
\* marked position.
C9_Witness ==
  /\ ret = Loaded /\ running
  /\ blocked /\ block_reason.text = "Daily loss limit reached"
  /\ Len(daily_trades) = 2
  /\ \E s \in DOMAIN open_positions : open_positions[s].unrealized_pnl # <<0, 1>>

\* C10: the state file is replaced atomically: the process dying inside a
\* save leaves a complete state in the file, so a file that holds a latched
\* block is never cut short and a restart does not come up unblocked.
C10_AtomicSave ==
  [][ (running /\ ~running' /\ file.status = "complete" /\ file.blocked) =>
        file'.status = "complete" ]_vars

RECURSIVE SumPnl(_)
SumPnl(trades) ==
  IF trades = <<>> THEN 0 ELSE trades[1].pnl + SumPnl(Tail(trades))

\* C11: concurrent calls are serialized.  Whenever every thread is back from
\* record_trade, daily_pnl is the sum of the recorded trades' pnl,
\* daily_trades holds every trade, and the state file is the object's state.
C11_Serialized ==
  (\A t \in Threads : pc[t] = "idle") =>
    /\ daily_pnl = SumPnl(daily_trades)
    /\ Len(daily_trades) = n_trades
    /\ n_trades > 0 => file = save_state(Self)

\* The denials of can_place_order that are not to latch.
SoftDenial(r) ==
  /\ ~r.ok /\ r.reason.prefix = ""
  /\ r.reason.text \in {"Position size exceeds max", "Max open positions reached"}

\* An order that respects the position-size limit and the open-position cap
\* on the positions given.
RespectsLimits(positions, symbol, side, lots) ==
  /\ config.max_position_size > 0 => lots <= config.max_position_size
  /\ (/\ side = "buy" /\ config.max_open_positions > 0
      /\ symbol \notin DOMAIN positions)
       => Cardinality(DOMAIN positions) < config.max_open_positions

\* The cap check never denies a sell or a buy on an instrument that has an
\* open position.
CapSparesHeld ==
  \A symbol \in Symbols, side \in Sides, lots \in Lots, price \in OrderPrices :
    (side = "sell" \/ symbol \in DOMAIN open_positions) =>
      can_place_order(Self, symbol, side, lots, price).reason.text
        # "Max open positions reached"

\* The Risk State a denial is to leave alone.
Watched == <<blocked, block_reason, daily_pnl, daily_trades, open_positions>>

\* C29, as claimed: an admit denied on the position size or on the
\* open-position cap leaves blocked, block_reason, the P&L, the trades and the
\* open positions as they were, a following admit that respects both limits
\* is allowed, and the cap check never denies a sell or a buy on an
\* instrument that has an open position.
C29_SoftDenialFrame ==
  [][ /\ CapSparesHeld
      /\ ret'.call = "can_place_order" =>
          \A symbol \in Symbols, side \in Sides, lots \in Lots, price \in OrderPrices :
            LET first == can_place_order(Self, symbol, side, lots, price)
            IN  (/\ first.ok = ret'.ok /\ first.reason = ret'.reason
                 /\ first.self = SelfNext /\ today' = today
                 /\ SoftDenial(first)) =>
                  /\ Watched' = Watched
                  /\ \A s2 \in Symbols, sd2 \in Sides, l2 \in Lots, p2 \in OrderPrices :
                       RespectsLimits(open_positions', s2, sd2, l2) =>
                         can_place_order(SelfNext, s2, sd2, l2, p2).ok ]_vars

\* C29, amended: such a denial never latches the block and leaves the open
\* positions as they were; on the stored trading date it leaves the whole
\* Risk State as it was, and on another date the call has first rolled the
\* date over (P&L 0, no trade, block cleared); a following admit that
\* respects both limits is allowed, and the cap check never denies a sell or
\* a buy on an instrument that has an open position.
C29_SoftDenialNoLatch ==
  /\ []CapSparesHeld
  /\ [][(/\ ret'.call = "can_place_order" /\ SoftDenial(ret') /\ today' = today
         /\ \E symbol \in Symbols, side \in Sides, lots \in Lots, price \in OrderPrices :
              LET first == can_place_order(Self, symbol, side, lots, price)
              IN  /\ first.ok = ret'.ok /\ first.reason = ret'.reason
                  /\ first.self = SelfNext) =>
          /\ ~blocked' /\ open_positions' = open_positions
          /\ today = current_date => Watched' = Watched
          /\ today # current_date =>
               /\ daily_pnl' = 0 /\ daily_trades' = <<>>
               /\ block_reason' = None /\ current_date' = today
          /\ \A s2 \in Symbols, sd2 \in Sides, l2 \in Lots, p2 \in OrderPrices :
               RespectsLimits(open_positions', s2, sd2, l2) =>
                 can_place_order(SelfNext, s2, sd2, l2, p2).ok ]_vars

\* A buy on a second instrument denied by the cap, on the trading date of the
\* trade that opened the first position.
C29_Witness ==
  /\ Denied /\ ret.reason = Reason("", "Max open positions reached", 1, 0)
  /\ ~blocked /\ today = current_date
  /\ Len(daily_trades) = 1 /\ Cardinality(DOMAIN open_positions) = 1

\* C30: every open position has
\* unrealized_pnl = (current_price - entry_price) * lots.
C30_UnrealizedPnl ==
  \A symbol \in DOMAIN open_positions :
    LET pos == open_positions[symbol]
    IN  pos.unrealized_pnl =
          RMul(RSub(pos.current_price, pos.entry_price), RInt(pos.lots))

\* -------------------------------------------------------- the market feeds
\* C21: a kline whose closed bit is false never enters the Candle Store: every
\* kline an adapter has queued for a market has x = true, and a candle is
\* added to a market only from a kline with x = true.
C21_ClosedOnly ==
  [][ \A p \in FeedProducts :
        /\ \A i \in DOMAIN feed_queue'[p] :
             feed_queue'[p][i].e = "kline" => feed_queue'[p][i].k.x = TRUE
        /\ market_candles'[p] # market_candles[p] =>
             /\ Head(feed_queue[p]).e = "kline"
             /\ Head(feed_queue[p]).k.x = TRUE ]_feedvars

\* The socket delivered the closed kline and then an update of the candle
\* under way to a registered market: one candle was added.
C21_Witness ==
  /\ n_ws = 2 /\ ws_msg.e = "kline" /\ ws_msg.k.x = FALSE
  /\ "B" \in markets
  /\ feed_queue["B"] = <<>> /\ Len(market_candles["B"]) = 1

\* C23: every row the feed thread has gone through was delivered to the queue
\* of its instrument's market exactly once, in row order, whenever the market
\* was registered.
C23_EveryRowOnce ==
  \A p \in DOMAIN csv_data :
    /\ Len(enqueued[p]) = data_indices[p]
    /\ \A i \in DOMAIN enqueued[p] : enqueued[p][i].k.T = csv_data[p][i].timestamp

\* ------------------------------------------------------------ the backfill
\* The candle times the venue has in the range of a backfill, at the interval
\* the adapter is configured with: a candle is named by the second it closes.
RangeCandles(b) ==
  LET step == b.interval \div 1000
  IN  {t \in {step * n : n \in 1..(2700 \div step)} :
         b.start <= t - step /\ t <= b.end}

\* C22: a backfill over more than one page returns every candle of the range,
\* and no candle time twice.
C22_BackfillPages ==
  (backfill.adapter # "" /\ backfill.end - backfill.start > PageCandles * (backfill.interval \div 1000)) =>
    /\ backfill.ok
    /\ \A i, j \in DOMAIN backfill.candles :
         backfill.candles[i] = backfill.candles[j] => i = j
    /\ \A t \in RangeCandles(backfill) :
         \E i \in DOMAIN backfill.candles : backfill.candles[i] = t

\* ---------------------------------------------------- the OpenAlgo adapter
\* C27: the quantity buy and sell send to the venue for an order of lots > 0
\* is lots times the lot_size of the product in the adapter's product list.
C27_LotsToQuantity ==
  (placed.call \in {"buy", "sell"} /\ placed.size > 0) =>
    placed.params.quantity = placed.size * openalgo_products[placed.symbol].lot_size

\* --------------------------------------------- the Binance order operations
\* The venue call of the operation failed.
VenueFailed == binance_op.venue.kind # "response"
\* The order type of the request is one buy and sell place.
Supported ==
  \/ binance_op.type \in {Absent, "market", "MARKET"}
  \/ binance_op.type = "limit" /\ binance_op.price > 0

\* C28: no exception leaves an order operation; buy, sell and get_order
\* return None when the client is unauthenticated, the product unknown, the
\* order type unsupported or the venue call failed; cancel_order returns True
\* exactly when the venue reports CANCELED; and a buy or sell that succeeds
\* returns an Order with the venue's order id and the side of the operation.
C28_FailureAsValue ==
  LET op == binance_op
      placing == op.call \in {"buy", "sell"}
  IN  /\ op.r.kind # "raise"
      /\ (op.call \in {"buy", "sell", "get_order"}
            /\ (~op.auth_client \/ ~op.product_info \/ VenueFailed))
           => op.r.kind = "none"
      /\ (placing /\ op.type = "stop_loss") => op.r.kind = "none"
      /\ op.call = "cancel_order" =>
           /\ op.r.kind = "bool"
           /\ op.r.ok <=> (/\ op.auth_client /\ op.product_info
                           /\ op.venue.kind = "response"
                           /\ op.venue.status = "CANCELED")
      /\ (placing /\ op.auth_client /\ op.product_info /\ Supported /\ ~VenueFailed)
           => /\ op.r.kind = "order"
              /\ op.r.side = op.call
              /\ (op.venue.orderId = 12345 => op.r.id = "12345")
              /\ (op.venue.orderId = 12346 => op.r.id = "12346")

\* A sell whose venue call raised an exception that is not the API's: None.
C28_Witness ==
  /\ binance_op.call = "sell" /\ binance_op.auth_client /\ binance_op.product_info
  /\ binance_op.type = "MARKET" /\ binance_op.venue.kind = "Exception"
  /\ binance_op.r.kind = "none"

\* ------------------------------------------------------------ the strategies
\* C24: generate_signal returns an integer in [-3, 3], and 0 whenever the
\* series is shorter than the warmup period of the strategy.
C24_SignalRange ==
  /\ result.signal \in -3..3
  /\ (strategy # "" /\ Len(series) < Warmup) => result.signal = 0

\* A Supertrend_ADX past its warmup has returned the strongest buy.
C24_Witness ==
  /\ strategy = "Supertrend_ADX" /\ Len(series) >= Warmup /\ result.signal = 3

\* C25: with warmup W and N closed candles delivered one at a time the
\* strategy is evaluated on exactly N - W candles, the candles W+1..N; the
\* W-th candle yields no evaluation and no non-zero signal.
C25_EvaluatedAfterWarmup ==
  strategy # "" =>
    /\ evaluations = (IF Len(series) > Warmup THEN Len(series) - Warmup ELSE 0)
    /\ Len(series) = Warmup => (~result.evaluated /\ result.signal = 0)

\* C26: the rolling Supertrend state advances once per closed candle: after
\* generate_signal(candles) the stored bands and direction are those computed
\* for candles[-1] from the state stored for the preceding candle, and the
\* direction used as the previous one is the direction that was stored.
C26_SupertrendAdvancesOnce ==
  [][(strategy = "Supertrend_ADX" /\ series' # series /\ result'.evaluated) =>
       LET cur == calculate_supertrend(instance, series')
       IN  /\ instance'.final_upper_band = cur.self.final_upper_band
           /\ instance'.final_lower_band = cur.self.final_lower_band
           /\ instance'.supertrend_direction = cur.direction
           /\ result'.prev_direction = instance.supertrend_direction]_strategyvars

\* ------------------------------------------------- the Risk Gate, continued
\* The reasons of the daily-loss limit, absolute and percent.
LossReasons == {"Daily loss limit reached", "Daily loss % limit reached"}

\* C35: the daily-loss latch engages only on losses: no can_place_order
\* denies for the daily-loss limit, or sets blocked, while the day's P&L is a
\* net profit.
C35_LatchOnlyOnLosses ==
  [][AdmitStep =>
       ((\/ ret'.reason.prefix = "" /\ ret'.reason.text \in LossReasons
         \/ ~blocked /\ blocked')
          => ~(daily_pnl' > 0))]_vars

\* C36: after reset_block on a day whose realized loss is max_daily_loss or
\* more the block is cleared, and the very next can_place_order, whatever the
\* order, is denied and latches the block again.
C36_UnblockRelatches ==
  [][(/\ running /\ ResetBlock
      /\ today = current_date
      /\ config.max_daily_loss > 0 /\ daily_pnl <= -config.max_daily_loss) =>
       /\ ~blocked'
       /\ \A symbol \in Symbols, side \in Sides, lots \in Lots, price \in OrderPrices :
            LET next == can_place_order(SelfNext, symbol, side, lots, price)
            IN  ~next.ok /\ next.self.blocked]_vars

\* The state reset_block leaves on a day whose realized loss is at the limit:
\* the block clear in memory and in the file, the loss and a later trade kept.
C36_Witness ==
  /\ running /\ ~blocked /\ ~file.blocked /\ block_reason = None
  /\ today = current_date
  /\ daily_pnl <= -config.max_daily_loss
  /\ n_trades = 2 /\ daily_trades[2].side = "buy"

\* The trade a record_trade step has recorded.
Recorded == daily_trades'[Len(daily_trades')]

\* C37: every entry of open_positions has lots > 0; a sell on an instrument
\* with no open position leaves open_positions as it was, and a sell of as
\* many lots as are held, or more, removes the entry.
C37_PositiveLots ==
  /\ [](\A symbol \in DOMAIN open_positions : open_positions[symbol].lots > 0)
  /\ [][(RecordTradeStep /\ Recorded.side = "sell") =>
          /\ Recorded.symbol \notin DOMAIN open_positions =>
               open_positions' = open_positions
          /\ (/\ Recorded.symbol \in DOMAIN open_positions
              /\ Recorded.lots >= open_positions[Recorded.symbol].lots) =>
               Recorded.symbol \notin DOMAIN open_positions']_vars

\* Two lots were sold of an instrument of which one lot was held: no entry
\* is left.
C37_Witness ==
  /\ n_trades = 2 /\ Len(daily_trades) = 2
  /\ daily_trades[1] = Trade("X", "buy", 1, 100, 0)
  /\ daily_trades[2].side = "sell" /\ daily_trades[2].symbol = "X"
  /\ daily_trades[2].lots = 2
  /\ open_positions = NoPositions

\* ------------------------------------------------------ the circuit breaker
\* The step is a call of the breaker.
IsCall == clock' = clock /\ breaker_out'.op = "call" /\ breakervars' # breakervars
\* The seconds since the circuit opened.
SinceOpened == clock - breaker.opened_at

\* C31: a CLOSED circuit opens exactly on the call that makes
\* failure_threshold wrapped calls fail in a row; a successful call sets the
\* failure count to zero and leaves the circuit CLOSED; and on every failed
\* call the exception of the wrapped function reaches the caller.
C31_OpensOnConsecutiveFailures ==
  [][IsCall =>
       /\ breaker.state = "CLOSED" =>
            /\ breaker_out'.invoked
            /\ breaker'.state = "OPEN" <=>
                 (breaker_out'.outcome = "raise" /\ streak' = failure_threshold)
            /\ breaker_out'.outcome = "return" =>
                 (breaker'.failure_count = 0 /\ breaker'.state = "CLOSED")
       /\ (breaker_out'.invoked /\ breaker_out'.outcome = "raise") =>
            (breaker_out'.kind = "raise" /\ breaker_out'.exc = "func")
       /\ (breaker_out'.invoked /\ breaker_out'.outcome = "return") =>
            breaker'.failure_count = 0]_breakervars

\* The circuit has just opened on the second of two failed calls.
C31_Witness ==
  /\ breaker.state = "OPEN" /\ breaker_out.op = "call" /\ breaker_out.exc = "func"
  /\ streak = failure_threshold /\ breaker.opened_at = clock

\* C32: while the circuit is OPEN and fewer than recovery_timeout seconds
\* have passed since it opened, a call raises CircuitBreakerError, does not
\* invoke the wrapped function and leaves the state and every counter alone.
C32_OpenRejects ==
  [][(/\ clock' = clock /\ breaker_out'.op = "call"
      /\ breaker.state = "OPEN" /\ SinceOpened < recovery_timeout) =>
       /\ breaker_out'.kind = "raise" /\ breaker_out'.exc = "CircuitBreakerError"
       /\ ~breaker_out'.invoked
       /\ breaker' = breaker]_breakervars

\* A call was turned away one second after the circuit opened.
C32_Witness ==
  /\ breaker.state = "OPEN" /\ SinceOpened = 1
  /\ breaker_out.op = "call" /\ breaker_out.exc = "CircuitBreakerError"
  /\ ~breaker_out.invoked

\* C33: a call made recovery_timeout seconds or more after the circuit
\* opened invokes the wrapped function on a HALF_OPEN circuit; a circuit that
\* is recovering closes exactly on the success that makes success_threshold
\* successes in a row; and a failure while recovering leaves it OPEN with
\* opened_at the time of that failure.
C33_Recovery ==
  [][(/\ IsCall
      /\ \/ breaker.state = "HALF_OPEN"
         \/ breaker.state = "OPEN" /\ SinceOpened >= recovery_timeout) =>
       /\ breaker_out'.invoked
       /\ breaker'.state = "CLOSED" <=>
            (breaker_out'.outcome = "return" /\ successes' = success_threshold)
       /\ (breaker_out'.outcome = "return" /\ successes' < success_threshold) =>
            (breaker'.state = "HALF_OPEN" /\ breaker'.opened_at = breaker.opened_at)
       /\ breaker_out'.outcome = "raise" =>
            (breaker'.state = "OPEN" /\ breaker'.opened_at = clock)]_breakervars

\* The circuit has closed on the second success in a row after it had opened
\* on failed calls.
C33_Witness ==
  /\ breaker.state = "CLOSED" /\ breaker_out.op = "call"
  /\ successes = success_threshold /\ breaker.last_failure_time # NoTime

\* C38: after every operation a CLOSED circuit has failure_count below
\* failure_threshold and no opened_at, and an OPEN or HALF_OPEN circuit has
\* its opened_at set.
C38_StateInvariant ==
  /\ breaker.state = "CLOSED" =>
       (breaker.failure_count < failure_threshold /\ breaker.opened_at = NoTime)
  /\ breaker.state \in {"OPEN", "HALF_OPEN"} => breaker.opened_at # NoTime

\* A circuit that had opened was reset by hand.
C38_Witness ==
  /\ breaker.state = "CLOSED" /\ breaker_out.op = "reset"
  /\ breaker.last_failure_time # NoTime /\ breaker.opened_at = NoTime

\* ---------------------------------------------------------- the backfill loop
\* C34: a paginated backfill terminates whatever the venue answers: a call
\* that has entered its loop returns.
C34_BackfillTerminates == (pager.pc = "loop") ~> (pager.pc = "returned")

\* ------------------------------------------------------- the Candle Store
\* A series: ordered by time, no time twice.
IsSeries(list) == \A i \in 1 .. Len(list) - 1 : list[i].time < list[i + 1].time
StoredSeries == rows_from(store, 1)
GetRecentStep == \E count \in Counts : DbGetRecentCandles(count)
ReadStep ==
  \/ DbGetAllCandles
  \/ \E after_time \in Times : DbGetCandlesAfterTime(after_time)
  \/ GetRecentStep

\* C12: saves are an upsert by time.  What db_get_all_candles and
\* db_get_recent_candles return is ordered by time with no time twice, and a
\* returned candle carries the values saved last for its time.
C12_UpsertByTime ==
  cret.call \in {"db_get_all_candles", "db_get_recent_candles"} =>
    /\ IsSeries(cret.value)
    /\ \A i \in 1 .. Len(cret.value) : store[cret.value[i].time] = cret.value[i].close

\* C13: with the back-end on-line and the cache a series,
\* db_get_recent_candles(n) returns the n stored candles of greatest time (all
\* of them when fewer are stored) in ascending time order, from the cache and
\* from the back-end alike.
C13_RecentCandles ==
  [][ \A count \in Counts :
        (/\ cret'.call = "db_get_recent_candles"
         /\ influx_up /\ IsSeries(cache)
         /\ DbGetRecentCandles(count)) =>
          cret'.value = LastN(StoredSeries, count) ]_allvars

\* C14: while the back-end is off-line, db_save_candles still puts the batch
\* in the cache, and db_get_recent_candles(n) is then served from the cache.
C14_SaveBatchOffline ==
  [][ \A candles \in Batches :
        (/\ cret'.call = "db_save_candles"
         /\ ~influx_up
         /\ DbSaveCandles(candles)) =>
          /\ cache' = cache_candles(cache, candles, max_candles)
          /\ \A count \in 1 .. Len(cache') :
                db_get_recent_candles(influx_up', store', cache', count)
                  = LastN(cache', count) ]_allvars

\* C15: a read made while the back-end is off-line returns the empty series,
\* never the content of the cache.
C15_ReadOffline ==
  [][ (~influx_up /\ ReadStep) => cret'.value = <<>> ]_allvars

\* C16: influxdb_errors_total counts the failed writes: it is the number of
\* write_candle and write_candles_batch calls that failed.
C16_ErrorCounter == influxdb_errors_total = failed_writes

\* ---------------------------------------------------- the message-bus sink
PublishStep == n_pubs' = n_pubs + 1
ProducerKept == kafka_enabled' = kafka_enabled /\ producer' = producer
Submitted(o) == Rec("wolfinch.orders.submitted", o)
Closing(o) == {Rec("wolfinch.orders.executed", o), Rec("wolfinch.orders.rejected", o)}
OnBus(rec) == \E i \in 1 .. Len(bus) : bus[i] = rec

\* C17, as claimed: no publish_* call raises; each returns True exactly when
\* the broker acknowledged what it sent, and a publish leaves the producer as
\* it was.
C17_PublishReturns ==
  [][ PublishStep =>
        /\ ~bret'.raised
        /\ ProducerKept
        /\ bret'.call # "publish_batch" => (bret'.ok <=> Len(bus') = Len(bus) + 1)
        /\ bret'.call = "publish_batch" =>
             \A events \in BatchEvents, acked \in [1 .. 2 -> BOOLEAN], raise_at \in 0 .. 2 :
               PublishBatch(events, acked, raise_at) =>
                 (bret'.ok <=> Len(bus') = Len(bus) + Len(events)) ]_allvars

\* C17, amended: no publish_* call raises and none changes enabled or the
\* producer; a publish through _send_event returns True exactly when the
\* broker acknowledged its record before the call returned; publish_batch
\* leaves the bus as it was when it returns False.
C17_PublishReturnsOk ==
  [][ PublishStep =>
        /\ ~bret'.raised
        /\ ProducerKept
        /\ bret'.call # "publish_batch" => (bret'.ok <=> Len(bus') = Len(bus) + 1)
        /\ (bret'.call = "publish_batch" /\ ~bret'.ok) => bus' = bus ]_allvars

\* A publish acknowledged after the publish of the same order's submitted
\* event had failed.
C17_Witness ==
  /\ bret.call = "publish_order_executed" /\ bret.ok
  /\ inflight = <<>>
  /\ \E o \in Orders :
       /\ stage[o] = "closed" /\ ~OnBus(Submitted(o))
       /\ bus[Len(bus)] = Rec("wolfinch.orders.executed", o)

Rank(topic) ==
  CASE topic = "wolfinch.orders.submitted" -> 1
    [] topic \in {"wolfinch.orders.executed", "wolfinch.orders.rejected"} -> 2
    [] topic = "wolfinch.orders.modified" -> 3
    [] OTHER -> 0

Canonical(status) ==
  CASE status \in {"new", "accepted", "confirmed", "unconfirmed", "queued", "open"} -> "open"
    [] status \in {"filled", "executed", "complete"} -> "filled"
    [] status \in {"canceled", "expired"} -> "canceled"
    [] status \in {"rejected", "failed"} -> "rejected"
    [] OTHER -> ""

\* C19: an Order that leaves an adapter carries one of the statuses open,
\* filled, canceled and rejected, and for a venue status of the mapping it is
\* the canonical status of that venue status.
C19_CanonicalStatus ==
  order_out.kind = "order" =>
    LET venue == IF order_out.adapter = "binance" /\ order_out.venue_status # Absent
                   THEN Lower(order_out.venue_status) ELSE order_out.venue_status
    IN  /\ order_out.order.status \in {"open", "filled", "canceled", "rejected"}
        /\ Canonical(venue) # "" => order_out.order.status = Canonical(venue)

C40_NoEnqueueAfterClose ==
  [][close_at = "returned" /\ stop_feed => enqueued' = enqueued]_allvars

\* C39: while a strategy holds a position (entry_price set before and after
\* the call, so no exit in between), its trailing stop does not decrease from
\* one generate_signal call to the next, and it lies below the highest close
\* observed since entry.
C39_TrailingStopRatchets ==
  /\ [](vwap_bb.entry_price # NoValue /\ vwap_bb.trailing_sl # NoValue
          => vwap_bb.trailing_sl < high_since_entry)
  /\ [][vwap_bb.entry_price # NoValue /\ vwap_bb'.entry_price # NoValue
          /\ vwap_bb.trailing_sl # NoValue
          => vwap_bb'.trailing_sl >= vwap_bb.trailing_sl]_allvars

================================================================
